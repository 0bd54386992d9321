------------------------ MODULE ArtifactUploaderProofs -------------------------
(***************************************************************************)
(* For all files, base names, versions and kills: uploaders that share the *)
(* state file never take a file for stored that is not, and an uploader    *)
(* that runs alone stores nothing but each file's own content, and never   *)
(* an older version over a newer one.                                      *)
(***************************************************************************)
EXTENDS ArtifactUploader, TLAPS

UpState ==
    [at : {"off", "sleep", "pass", "compress", "copying", "put", "sent"}, once : BOOLEAN,
     state : Remembered, todo : SUBSET File, failed : BOOLEAN, after : BOOLEAN,
     file : Existing \cup {NoFile}, form : Form, sent : Content]
FileInHand(s) == s.file = NoFile <=> s.at \in {"off", "sleep", "pass"}

\* What any uploader, or the next one to start, takes for stored.
States == {stateFile, Forgotten} \cup {up[u].state : u \in Uploader}

\* No signature is remembered that its file does not have yet.
NotAhead == \A s \in States, f \in File : s[f] <= local[f]

IInv == TypeOK /\ NotAhead /\ SkippedIsStored

--------------------------------------------------------------------------------
(* Types *)

LEMMA ContentFacts ==
    ASSUME TypeOK
    PROVE  /\ Nothing \in Content /\ Forgotten \in Remembered
           /\ \A f \in File : /\ Now(f) \in Content /\ Partial(f) \in Content
                              /\ Now(f) # Nothing /\ f # NoFile
                              /\ BaseName[f] \in Name /\ local[f] \in Nat
BY FileAssumption DEF TypeOK, Content, Nothing, Now, Partial, Forgotten, Remembered

LEMMA InitTypeOK == Init => TypeOK
<1> SUFFICES ASSUME Init PROVE TypeOK
  OBVIOUS
<1>1. Nothing \in Content /\ Forgotten \in Remembered
  BY DEF Content, Nothing, Forgotten, Remembered
<1>2. Off \in UpState /\ FileInHand(Off)
  BY <1>1 DEF Off, UpState, FileInHand, Form
<1>3. local \in [File -> Nat] /\ MaxKills \in Nat /\ kills = 0
  BY BoundsAssumption DEF Init
<1>4. up \in [Uploader -> UpState] /\ \A u \in Uploader : FileInHand(up[u])
  BY <1>2 DEF Init
<1>5. /\ remote \in [File -> [Form -> Content]] /\ temp \in [Name -> Content]
      /\ stateFile \in Remembered
  BY <1>1 DEF Init
<1>6. training \in BOOLEAN /\ synced \in BOOLEAN /\ torn \subseteq File
  BY DEF Init
<1>7. kills \in 0..MaxKills
  BY <1>3
<1> QED BY <1>3, <1>4, <1>5, <1>6, <1>7 DEF TypeOK, UpState, FileInHand

\* A step of one uploader keeps the types if it gives it a state of its type.
LEMMA UpTyped ==
    ASSUME TypeOK, NEW u \in Uploader, NEW s \in UpState, FileInHand(s),
           up' = [up EXCEPT ![u] = s], UNCHANGED <<training, local>>,
           remote' \in [File -> [Form -> Content]], temp' \in [Name -> Content],
           stateFile' \in Remembered, synced' \in BOOLEAN, torn' \subseteq File,
           kills' \in 0..MaxKills
    PROVE  TypeOK'
BY DEF TypeOK, UpState, FileInHand, Existing

\* It gives the other uploaders the state they have.
LEMMA UpOthers ==
    ASSUME TypeOK, NEW u \in Uploader, NEW s, up' = [up EXCEPT ![u] = s]
    PROVE  /\ up'[u] = s
           /\ \A w \in Uploader \ {u} : up'[w] = up[w]
           /\ up[u] \in UpState /\ FileInHand(up[u])
BY DEF TypeOK, UpState, FileInHand

\* The states a step gives to its uploader.
PassState(u, state, runOnce) ==
    [up[u] EXCEPT !.at = "pass", !.todo = File, !.after = ~training, !.state = state,
                  !.once = runOnce]
TodoState(u, f) == [up[u] EXCEPT !.todo = @ \ {f}]
BeginState(u, f) == [up[u] EXCEPT !.at = "compress", !.file = f]
CopyState(u) == [up[u] EXCEPT !.at = "copying", !.sent = Now(up[u].file)]
PlainState(u) == [up[u] EXCEPT !.at = "put"]
CopiedState(u, form) == [up[u] EXCEPT !.at = "put", !.form = form, !.sent = Nothing]
SentState(u, source) == [up[u] EXCEPT !.at = "sent", !.sent = source]
LeftState(u, state, failed) ==
    [up[u] EXCEPT !.at = "pass", !.todo = @ \ {up[u].file}, !.state = state, !.failed = failed,
                  !.file = NoFile, !.form = "plain", !.sent = Nothing]
SleepState(u) == [Off EXCEPT !.at = "sleep", !.state = up[u].state]

LEMMA StartEffect ==
    ASSUME TypeOK, NEW u \in Uploader, NEW runOnce \in BOOLEAN, Start(u, runOnce)
    PROVE  \E state \in {stateFile, Forgotten} :
               /\ up' = [up EXCEPT ![u] = PassState(u, state, runOnce)]
               /\ PassState(u, state, runOnce) \in UpState
               /\ FileInHand(PassState(u, state, runOnce))
<1>1. PICK state \in Loaded(u) :
        up' = [up EXCEPT ![u] = PassFrom([@ EXCEPT !.once = runOnce, !.state = state])]
  BY DEF Start
<1>2. state \in {stateFile, Forgotten}
  BY <1>1 DEF Loaded
<1>3. up[u] \in UpState /\ FileInHand(up[u]) /\ up[u].at = "off" /\ up \in [Uploader -> UpState]
  BY DEF TypeOK, UpState, FileInHand, Start
<1>4. state \in Remembered /\ training \in BOOLEAN
  BY <1>2, ContentFacts DEF TypeOK
<1>5. PassState(u, state, runOnce) \in UpState /\ FileInHand(PassState(u, state, runOnce))
  BY <1>3, <1>4 DEF UpState, FileInHand, PassState
<1>6. up' = [up EXCEPT ![u] = PassState(u, state, runOnce)]
  BY <1>1, <1>3 DEF PassFrom, PassState, UpState
<1> QED BY <1>2, <1>5, <1>6

LEMMA StartTypeOK ==
    ASSUME TypeOK, NEW u \in Uploader, NEW runOnce \in BOOLEAN, Start(u, runOnce)
    PROVE  TypeOK'
<1>1. PICK s \in UpState : up' = [up EXCEPT ![u] = s] /\ FileInHand(s)
  BY StartEffect
<1> QED BY <1>1, UpTyped DEF Start, TypeOK

LEMMA NextPassTypeOK ==
    ASSUME TypeOK, NEW u \in Uploader, NextPass(u)
    PROVE  /\ TypeOK' /\ up' = [up EXCEPT ![u] = PassFrom(up[u])]
<1>1. up[u] \in UpState /\ FileInHand(up[u]) /\ up[u].at = "sleep" /\ training \in BOOLEAN
  BY DEF TypeOK, UpState, FileInHand, NextPass
<1>2. PassFrom(up[u]) \in UpState /\ FileInHand(PassFrom(up[u]))
  BY <1>1 DEF UpState, FileInHand, PassFrom
<1>3. up' = [up EXCEPT ![u] = PassFrom(up[u])]
  BY DEF NextPass
<1> QED BY <1>2, <1>3, UpTyped DEF NextPass, TypeOK

LEMMA TodoTypeOK ==
    ASSUME TypeOK, NEW u \in Uploader, NEW f \in up[u].todo, NotFound(u, f) \/ Skip(u, f)
    PROVE  /\ TypeOK' /\ up' = [up EXCEPT ![u] = TodoState(u, f)]
<1>1. up[u] \in UpState /\ FileInHand(up[u]) /\ up \in [Uploader -> UpState]
  BY DEF TypeOK, UpState, FileInHand
<1>2. TodoState(u, f) \in UpState /\ FileInHand(TodoState(u, f))
  BY <1>1 DEF UpState, FileInHand, TodoState
<1>3. up' = [up EXCEPT ![u] = TodoState(u, f)]
  BY <1>1 DEF NotFound, Skip, TodoState, UpState
<1> QED BY <1>2, <1>3, UpTyped, ZenonT(30) DEF NotFound, Skip, TypeOK

LEMMA BeginTypeOK ==
    ASSUME TypeOK, NEW u \in Uploader, NEW f \in up[u].todo, Begin(u, f)
    PROVE  /\ TypeOK' /\ up' = [up EXCEPT ![u] = BeginState(u, f)] /\ f \in Existing
<1>1. up[u] \in UpState /\ FileInHand(up[u]) /\ f \in Existing /\ f # NoFile
      /\ up \in [Uploader -> UpState]
  BY ContentFacts DEF TypeOK, UpState, FileInHand, Begin, Found, Existing
<1>2. BeginState(u, f) \in UpState /\ FileInHand(BeginState(u, f))
  BY <1>1 DEF UpState, FileInHand, BeginState
<1>3. up' = [up EXCEPT ![u] = BeginState(u, f)]
  BY <1>1 DEF Begin, BeginState, UpState
<1> QED BY <1>1, <1>2, <1>3, UpTyped DEF Begin, TypeOK

\* The file in hand is one that exists.
LEMMA FileFacts ==
    ASSUME TypeOK, NEW u \in Uploader, up[u].at \notin {"off", "sleep", "pass"}
    PROVE  /\ up[u].file \in File /\ up[u].file \in Existing /\ up[u].file # NoFile
           /\ BaseName[up[u].file] \in Name /\ Copy(u) \in Content
           /\ up[u] \in UpState /\ up[u].form \in Form /\ up[u].sent \in Content
           /\ up \in [Uploader -> UpState]
<1>1. up[u] \in UpState /\ FileInHand(up[u]) /\ up \in [Uploader -> UpState]
  BY DEF TypeOK, UpState, FileInHand
<1>2. up[u].file \in Existing /\ up[u].form \in Form /\ up[u].sent \in Content
  BY <1>1 DEF UpState, FileInHand
<1>3. BaseName[up[u].file] \in Name /\ up[u].file \in File
  BY <1>2, ContentFacts DEF Existing
<1> QED BY <1>1, <1>2, <1>3, ContentFacts DEF TypeOK, Copy

LEMMA CompressTypeOK ==
    ASSUME TypeOK, NEW u \in Uploader, Compress(u)
    PROVE  /\ TypeOK'
           /\ \/ /\ up' = [up EXCEPT ![u] = CopyState(u)]
                 /\ temp' = [temp EXCEPT ![BaseName[up[u].file]] = Partial(up[u].file)]
              \/ up' = [up EXCEPT ![u] = PlainState(u)] /\ temp' = temp
<1>1. /\ up[u].file \in File /\ up[u].file # NoFile /\ up[u].file \in Existing
      /\ up[u] \in UpState /\ up \in [Uploader -> UpState] /\ BaseName[up[u].file] \in Name
  BY FileFacts DEF Compress
<1>2. CASE CopyBegins(u)
  <2>1. CopyState(u) \in UpState /\ FileInHand(CopyState(u))
    BY <1>1, ContentFacts DEF UpState, FileInHand, CopyState
  <2>2. up' = [up EXCEPT ![u] = CopyState(u)]
    BY <1>1, <1>2 DEF CopyBegins, CopyState, UpState
  <2>3. temp' = [temp EXCEPT ![BaseName[up[u].file]] = Partial(up[u].file)]
    BY <1>2 DEF CopyBegins, SetCopy
  <2>4. temp' \in [Name -> Content]
    BY <1>1, <2>3, ContentFacts DEF TypeOK
  <2>5. TypeOK'
    BY <2>1, <2>2, <2>4, UpTyped DEF Compress, TypeOK
  <2> QED BY <2>2, <2>3, <2>5
<1>3. CASE up' = [up EXCEPT ![u].at = "put"] /\ UNCHANGED temp
  <2>1. PlainState(u) \in UpState /\ FileInHand(PlainState(u))
    BY <1>1 DEF UpState, FileInHand, PlainState
  <2>2. up' = [up EXCEPT ![u] = PlainState(u)]
    BY <1>1, <1>3 DEF PlainState, UpState
  <2>3. TypeOK'
    BY <1>3, <2>1, <2>2, UpTyped DEF Compress, TypeOK
  <2> QED BY <1>3, <2>2, <2>3
<1> QED BY <1>2, <1>3 DEF Compress

LEMMA CopiedTypeOK ==
    ASSUME TypeOK, NEW u \in Uploader, Copied(u)
    PROVE  /\ TypeOK'
           /\ \E form \in Form :
                 /\ up' = [up EXCEPT ![u] = CopiedState(u, form)]
                 /\ temp' = [temp EXCEPT ![BaseName[up[u].file]] =
                                IF form = "gz" THEN up[u].sent ELSE Nothing]
<1>1. /\ up[u].file \in File /\ up[u].file # NoFile /\ up[u].file \in Existing
      /\ up[u] \in UpState /\ up \in [Uploader -> UpState] /\ BaseName[up[u].file] \in Name
      /\ up[u].sent \in Content
  BY FileFacts DEF Copied
<1>2. PICK form \in Form :
        /\ up' = [up EXCEPT ![u].at = "put", ![u].form = form, ![u].sent = Nothing]
        /\ SetCopy(u, IF form = "gz" THEN up[u].sent ELSE Nothing)
  BY DEF Copied
<1>3. CopiedState(u, form) \in UpState /\ FileInHand(CopiedState(u, form))
  BY <1>1, ContentFacts DEF UpState, FileInHand, CopiedState
<1>4. up' = [up EXCEPT ![u] = CopiedState(u, form)]
  BY <1>1, <1>2 DEF CopiedState, UpState
<1>5. temp' = [temp EXCEPT ![BaseName[up[u].file]] =
                  IF form = "gz" THEN up[u].sent ELSE Nothing]
  BY <1>2 DEF SetCopy
<1>6. temp' \in [Name -> Content]
  BY <1>1, <1>5, ContentFacts DEF TypeOK
<1>7. TypeOK'
  BY <1>3, <1>4, <1>6, UpTyped DEF Copied, TypeOK
<1> QED BY <1>4, <1>5, <1>7

LEMMA PutReadsTypeOK ==
    ASSUME TypeOK, NEW u \in Uploader, PutReads(u)
    PROVE  LET source == IF up[u].form = "gz" THEN Copy(u) ELSE Now(up[u].file) IN
           TypeOK' /\ up' = [up EXCEPT ![u] = SentState(u, source)]
<1> DEFINE source == IF up[u].form = "gz" THEN Copy(u) ELSE Now(up[u].file)
<1>1. /\ up[u].file \in File /\ up[u].file # NoFile /\ up[u].file \in Existing
      /\ up[u] \in UpState /\ up \in [Uploader -> UpState] /\ source \in Content
  BY FileFacts, ContentFacts DEF PutReads
<1>2. up' = [up EXCEPT ![u].at = "sent", ![u].sent = source]
      /\ UNCHANGED <<training, local, remote, temp, stateFile, synced, torn, kills>>
  BY DEF PutReads
<1> HIDE DEF source
<1>3. SentState(u, source) \in UpState /\ FileInHand(SentState(u, source))
  BY <1>1 DEF UpState, FileInHand, SentState
<1>4. up' = [up EXCEPT ![u] = SentState(u, source)]
  BY <1>1, <1>2 DEF SentState, UpState
<1>5. TypeOK'
  BY <1>2, <1>3, <1>4, UpTyped DEF TypeOK
<1> QED BY <1>4, <1>5 DEF source

\* What is common to the ends of a put: the state the uploader goes on with, and the
\* copy that it removes.
LEMMA LeaveTypeOK ==
    ASSUME TypeOK, NEW u \in Uploader, up[u].at \notin {"off", "sleep", "pass"},
           NEW state \in Remembered, NEW failed \in BOOLEAN, LeaveFile(u, state, failed),
           remote' \in [File -> [Form -> Content]], torn' \subseteq File
    PROVE  /\ TypeOK' /\ up' = [up EXCEPT ![u] = LeftState(u, state, failed)]
           /\ \A n \in Name : temp'[n] \in {temp[n], Nothing}
<1>1. up[u] \in UpState /\ up \in [Uploader -> UpState]
      /\ BaseName[up[u].file] \in Name /\ Nothing \in Content
  BY FileFacts, ContentFacts
<1>2. LeftState(u, state, failed) \in UpState /\ FileInHand(LeftState(u, state, failed))
  BY <1>1 DEF UpState, FileInHand, LeftState, Form
<1>3. /\ up' = [up EXCEPT ![u] = LeftState(u, state, failed)]
      /\ UNCHANGED <<training, local, stateFile, synced, kills>>
  <2>1. UNCHANGED <<training, local, stateFile, synced, kills>>
    BY DEF LeaveFile
  <2>2. up' = [up EXCEPT ![u] = LeftState(u, state, failed)]
    BY DEF LeaveFile, LeftState
  <2> QED BY <2>1, <2>2
<1>4. temp' = temp \/ temp' = [temp EXCEPT ![BaseName[up[u].file]] = Nothing]
  BY DEF LeaveFile, SetCopy
<1>5. temp \in [Name -> Content]
  BY DEF TypeOK
<1>6. temp' \in [Name -> Content] /\ \A n \in Name : temp'[n] \in {temp[n], Nothing}
  BY <1>1, <1>4, <1>5
<1>7. TypeOK'
  BY <1>2, <1>3, <1>6, UpTyped DEF TypeOK
<1> QED BY <1>3, <1>6, <1>7

LEMMA StoredTypeOK ==
    ASSUME TypeOK, NEW u \in Uploader, up[u].at \notin {"off", "sleep", "pass"}, Stored(u)
    PROVE  remote' \in [File -> [Form -> Content]] /\ torn' \subseteq File
<1>1. /\ up[u].file \in File /\ up[u].form \in Form /\ up[u].sent \in Content
  BY FileFacts
<1>2. remote' = [remote EXCEPT ![up[u].file][up[u].form] = up[u].sent]
      /\ torn' \subseteq torn \cup {up[u].file}
  BY DEF Stored
<1> QED BY <1>1, <1>2 DEF TypeOK

LEMMA RememberFacts ==
    ASSUME TypeOK, NEW u \in Uploader, up[u].at \notin {"off", "sleep", "pass"}
    PROVE  /\ WithFile(u) \in Remembered /\ up[u].state \in Remembered
           /\ WithFile(u)[up[u].file] = local[up[u].file]
           /\ \A f \in File \ {up[u].file} : WithFile(u)[f] = up[u].state[f]
<1>1. up[u].file \in File /\ up[u].state \in Remembered
  BY FileFacts DEF UpState
<1>2. local[up[u].file] \in Nat
  BY <1>1 DEF TypeOK
<1> QED BY <1>1, <1>2 DEF WithFile, Remembered

LEMMA PutReturnsTypeOK ==
    ASSUME TypeOK, NEW u \in Uploader, PutReturns(u)
    PROVE  /\ TypeOK' /\ up' = [up EXCEPT ![u] = LeftState(u, WithFile(u), up[u].failed)]
<1>1. up[u].at = "sent" /\ Stored(u) /\ LeaveFile(u, WithFile(u), up[u].failed)
  BY DEF PutReturns
<1>2. WithFile(u) \in Remembered /\ up[u].failed \in BOOLEAN
  BY <1>1, RememberFacts, FileFacts DEF UpState
<1> QED BY <1>1, <1>2, StoredTypeOK, LeaveTypeOK

LEMMA PutFailsTypeOK ==
    ASSUME TypeOK, NEW u \in Uploader, PutFails(u) \/ CopyGone(u)
    PROVE  /\ TypeOK' /\ up' = [up EXCEPT ![u] = LeftState(u, up[u].state, TRUE)]
           /\ up[u].at \in {"put", "sent"}
<1>1. /\ up[u].at \in {"put", "sent"} /\ LeaveFile(u, up[u].state, TRUE)
      /\ UNCHANGED <<remote, torn>> \/ Stored(u)
  BY DEF PutFails, CopyGone
<1>2. up[u].state \in Remembered
  BY <1>1, RememberFacts
<1>3. remote' \in [File -> [Form -> Content]] /\ torn' \subseteq File
  BY <1>1, StoredTypeOK DEF TypeOK
<1> QED BY <1>1, <1>2, <1>3, LeaveTypeOK

LEMMA AfterPassTypeOK ==
    ASSUME TypeOK, NEW u \in Uploader, EndPass(u) \/ PassRaises(u)
    PROVE  /\ TypeOK'
           /\ up' = [up EXCEPT ![u] = Off] \/ up' = [up EXCEPT ![u] = SleepState(u)]
<1>1. up[u] \in UpState /\ up \in [Uploader -> UpState] /\ up[u].state \in Remembered
      /\ up[u].once \in BOOLEAN /\ up[u].after \in BOOLEAN /\ up[u].failed \in BOOLEAN
  BY DEF TypeOK, UpState
<1>2. /\ Off \in UpState /\ FileInHand(Off)
      /\ SleepState(u) \in UpState /\ FileInHand(SleepState(u))
  BY <1>1, ContentFacts DEF UpState, FileInHand, Off, SleepState, Form
<1>3. up' = [up EXCEPT ![u] = Off] \/ up' = [up EXCEPT ![u] = SleepState(u)]
  BY DEF EndPass, PassRaises, AfterPass, SleepState
<1>4. /\ stateFile' \in Remembered /\ synced' \in BOOLEAN
      /\ UNCHANGED <<training, local, remote, temp, torn, kills>>
  BY <1>1 DEF EndPass, PassRaises, TypeOK
<1> QED BY <1>2, <1>3, <1>4, UpTyped DEF TypeOK

LEMMA KillTypeOK ==
    ASSUME TypeOK, NEW u \in Uploader, Kill(u)
    PROVE  /\ TypeOK' /\ up' = [up EXCEPT ![u] = Off]
<1>1. Off \in UpState /\ FileInHand(Off)
  BY ContentFacts DEF UpState, FileInHand, Off, Form
<1>2. kills' \in 0..MaxKills
  <2>1. kills \in 0..MaxKills /\ kills < MaxKills /\ kills' = kills + 1 /\ MaxKills \in Nat
    BY BoundsAssumption DEF Kill, TypeOK
  <2> QED BY <2>1
<1>3. stateFile' \in Remembered
  BY ContentFacts DEF Kill, TypeOK
<1> QED BY <1>1, <1>2, <1>3, UpTyped DEF Kill, TypeOK

LEMMA WriteTypeOK ==
    ASSUME TypeOK, NEW f \in File, Write(f)
    PROVE  /\ TypeOK'
           /\ local'[f] = local[f] + 1 /\ \A g \in File \ {f} : local'[g] = local[g]
           /\ \A g \in File : local[g] \in Nat /\ local[g] <= local'[g]
<1>1. local' = [local EXCEPT ![f] = local[f] + 1] /\ local \in [File -> Nat]
      /\ UNCHANGED <<training, remote, temp, stateFile, up, synced, torn, kills>>
  BY DEF Write, TypeOK
<1>2. local' \in [File -> Nat] /\ local'[f] = local[f] + 1
      /\ \A g \in File \ {f} : local'[g] = local[g]
  BY <1>1
<1>3. \A g \in File : local[g] \in Nat /\ local[g] <= local'[g]
  BY <1>1, <1>2
<1>4. Existing \subseteq Existing'
  BY <1>2, <1>3 DEF Existing
<1>5. TypeOK'
  <2>1. up' \in [Uploader -> UpState'] /\ \A u \in Uploader : FileInHand(up'[u])
    BY <1>1, <1>4 DEF TypeOK, UpState, FileInHand
  <2> QED BY <1>1, <1>2, <2>1 DEF TypeOK, UpState, FileInHand
<1> QED BY <1>2, <1>3, <1>5

--------------------------------------------------------------------------------
(* What is remembered is stored *)

\* Nothing new is remembered, and nothing stored is touched.
LEMMA NothingNew ==
    ASSUME IInv, TypeOK', States' \subseteq States, UNCHANGED <<local, remote, torn>>
    PROVE  IInv'
<1>1. NotAhead'
  BY DEF IInv, NotAhead
<1>2. SkippedIsStored'
  <2> SUFFICES ASSUME NEW f \in Existing, NEW s \in States, local[f] = s[f]
               PROVE  Current(f) \/ f \in torn
    BY DEF SkippedIsStored, States, Existing, Current, Now
  <2>1. s # Forgotten
    BY DEF Forgotten, Existing
  <2> QED BY <2>1 DEF States, IInv, SkippedIsStored
<1> QED BY <1>1, <1>2 DEF IInv

\* An uploader that goes on with a state it had, or finds, remembers nothing new.
LEMMA KeepStates ==
    ASSUME TypeOK, NEW u \in Uploader, NEW s, up' = [up EXCEPT ![u] = s],
           s.state \in States, stateFile' \in States
    PROVE  States' \subseteq States
<1>1. up'[u] = s /\ \A w \in Uploader \ {u} : up'[w] = up[w]
  BY UpOthers
<1> QED BY <1>1 DEF States

\* A put that may have stored leaves what it has not stored as torn.
LEMMA StoredFacts ==
    ASSUME TypeOK, NEW u \in Uploader, up[u].at \notin {"off", "sleep", "pass"}, Stored(u),
           UNCHANGED local, NEW g, g = up[u].file
    PROVE  /\ g \in File
           /\ Current(g)' \/ g \in torn'
           /\ \A f \in File \ {g} :
                 /\ Current(f) => Current(f)'
                 /\ f \in torn => f \in torn'
<1>1. up[u].file \in File /\ up[u].form \in Form /\ up[u].sent \in Content
  BY FileFacts
<1>3. PICK form : form = up[u].form
  OBVIOUS
<1>4. /\ remote' = [remote EXCEPT ![g][form] = up[u].sent]
      /\ torn' = IF up[u].sent = Now(g) THEN torn \ {g} ELSE torn \cup {g}
      /\ g \in File /\ form \in Form /\ remote \in [File -> [Form -> Content]]
  BY <1>1, <1>3 DEF Stored, TypeOK
<1>5. remote'[g][form] = up[u].sent
      /\ \A f \in File \ {g} : remote'[f] = remote[f]
  BY <1>4
<1>6. \A f \in File : Now(f)' = Now(f)
  BY DEF Now
<1>7. Current(g)' \/ g \in torn'
  BY <1>4, <1>5, <1>6 DEF Current
<1>8. \A f \in File \ {g} : (Current(f) => Current(f)') /\ (f \in torn => f \in torn')
  BY <1>4, <1>5, <1>6 DEF Current
<1> QED BY <1>4, <1>7, <1>8

\* A put that has succeeded remembers its file, and has stored it or left it torn.
LEMMA PutReturnsIInv ==
    ASSUME IInv, NEW u \in Uploader, PutReturns(u)
    PROVE  IInv'
<1>1. TypeOK /\ up[u].at \notin {"off", "sleep", "pass"} /\ Stored(u)
      /\ UNCHANGED <<local, stateFile>>
  BY DEF IInv, PutReturns, LeaveFile
<1>2. TypeOK' /\ up' = [up EXCEPT ![u] = LeftState(u, WithFile(u), up[u].failed)]
  BY <1>1, PutReturnsTypeOK
<1>3. PICK g : g = up[u].file
  OBVIOUS
<1>4. /\ g \in File
      /\ Current(g)' \/ g \in torn'
      /\ \A f \in File \ {g} : (Current(f) => Current(f)') /\ (f \in torn => f \in torn')
  BY <1>1, <1>3, StoredFacts
<1>5. /\ WithFile(u)[g] = local[g] /\ \A f \in File \ {g} : WithFile(u)[f] = up[u].state[f]
  BY <1>1, <1>3, RememberFacts
<1>6. /\ up'[u].state = WithFile(u)
      /\ \A w \in Uploader \ {u} : up'[w] = up[w]
  <2>1. up[u] \in UpState /\ LeftState(u, WithFile(u), up[u].failed).state = WithFile(u)
    BY <1>1, FileFacts DEF LeftState, UpState
  <2> QED BY <1>1, <1>2, <2>1, UpOthers
<1>7. \A s \in States' : s \in States \/ s = WithFile(u)
  BY <1>1, <1>6 DEF States
<1>8. ASSUME NEW f \in File PROVE WithFile(u)[f] <= local[f]
  <2>1. local[f] \in Nat /\ up[u].state \in States
    BY <1>1 DEF TypeOK, States
  <2>2. up[u].state[f] <= local[f]
    BY <2>1 DEF IInv, NotAhead
  <2>3. CASE f = g
    BY <1>5, <2>1, <2>3
  <2>4. CASE f # g
    BY <1>5, <2>2, <2>4
  <2> QED BY <2>3, <2>4
<1>9. NotAhead'
  BY <1>1, <1>7, <1>8 DEF IInv, NotAhead
<1>10. SkippedIsStored'
  <2> SUFFICES ASSUME NEW f \in Existing, NEW s \in States', local[f] = s[f]
               PROVE  Current(f)' \/ f \in torn'
    BY <1>1 DEF SkippedIsStored, States, Existing
  <2>1. CASE f = g
    BY <1>4, <2>1
  <2>2. CASE f # g
    <3>1. f \in File \ {g} /\ f \in Existing /\ local[f] # 0
      BY <2>2 DEF Existing
    <3>2. \E r \in States : local[f] = r[f]
      <4>1. CASE s \in States
        BY <4>1
      <4>2. CASE s = WithFile(u)
        BY <1>5, <3>1, <4>2 DEF States
      <4> QED BY <1>7, <4>1, <4>2
    <3>3. Current(f) \/ f \in torn
      BY <3>1, <3>2 DEF IInv, SkippedIsStored, States, Forgotten
    <3> QED BY <1>4, <3>1, <3>3
  <2> QED BY <2>1, <2>2
<1> QED BY <1>2, <1>9, <1>10 DEF IInv

\* A put that has failed remembers nothing, whatever it has stored.
LEMMA PutFailsIInv ==
    ASSUME IInv, NEW u \in Uploader, PutFails(u) \/ CopyGone(u)
    PROVE  IInv'
<1>1. /\ TypeOK /\ up[u].at \notin {"off", "sleep", "pass"}
      /\ UNCHANGED <<remote, torn>> \/ Stored(u)
      /\ UNCHANGED <<local, stateFile>>
  BY DEF IInv, PutFails, CopyGone, LeaveFile
<1>2. TypeOK' /\ up' = [up EXCEPT ![u] = LeftState(u, up[u].state, TRUE)]
  BY <1>1, PutFailsTypeOK
<1>3. States' \subseteq States
  <2>1. up[u] \in UpState /\ LeftState(u, up[u].state, TRUE).state = up[u].state
    BY <1>1, FileFacts DEF LeftState, UpState
  <2>2. up[u].state \in States /\ stateFile' \in States
    BY <1>1 DEF States
  <2> QED BY <1>1, <1>2, <2>1, <2>2, KeepStates
<1>4. CASE UNCHANGED <<remote, torn>>
  BY <1>1, <1>2, <1>3, <1>4, NothingNew
<1>5. CASE Stored(u)
  <2>1. PICK g : g = up[u].file
    OBVIOUS
  <2>2. /\ Current(g)' \/ g \in torn'
        /\ \A f \in File \ {g} : (Current(f) => Current(f)') /\ (f \in torn => f \in torn')
    BY <1>1, <1>5, <2>1, StoredFacts
  <2>3. NotAhead'
    BY <1>1, <1>3 DEF IInv, NotAhead
  <2>4. SkippedIsStored'
    <3> SUFFICES ASSUME NEW f \in Existing, NEW s \in States', local[f] = s[f]
                 PROVE  Current(f)' \/ f \in torn'
      BY <1>1 DEF SkippedIsStored, States, Existing
    <3>1. f \in File /\ s \in States /\ local[f] # 0
      BY <1>3 DEF Existing
    <3>2. Current(f) \/ f \in torn
      BY <3>1 DEF IInv, SkippedIsStored, States, Forgotten
    <3> QED BY <2>2, <3>1, <3>2
  <2> QED BY <1>2, <2>3, <2>4 DEF IInv
<1> QED BY <1>1, <1>4, <1>5

\* A file that is written has a signature that nobody remembers.
LEMMA WriteIInv ==
    ASSUME IInv, NEW f \in File, Write(f)
    PROVE  IInv'
<1>1. /\ TypeOK' /\ local'[f] = local[f] + 1
      /\ \A g \in File \ {f} : local'[g] = local[g]
      /\ \A g \in File : local[g] \in Nat /\ local[g] <= local'[g]
      /\ UNCHANGED <<remote, stateFile, up, torn>>
  BY WriteTypeOK DEF IInv, Write
<1>2. States' = States /\ \A s \in States, g \in File : s[g] \in Nat /\ s[g] <= local[g]
  BY <1>1, ContentFacts DEF IInv, States, NotAhead, TypeOK, Remembered
<1>3. NotAhead'
  BY <1>1, <1>2 DEF NotAhead
<1>4. SkippedIsStored'
  <2> SUFFICES ASSUME NEW g \in Existing', NEW s \in States, local'[g] = s[g], s # Forgotten
               PROVE  Current(g)' \/ g \in torn'
    BY <1>2 DEF SkippedIsStored, States, Existing, Forgotten
  <2>1. g \in File /\ s[g] <= local[g] /\ local[g] \in Nat
    BY <1>1, <1>2 DEF Existing
  <2>2. g # f
    BY <1>1, <2>1
  <2>3. local'[g] = local[g] /\ g \in Existing /\ Now(g)' = Now(g)
    BY <1>1, <2>1, <2>2 DEF Existing, Now
  <2>4. Current(g) \/ g \in torn
    BY <2>3 DEF IInv, SkippedIsStored, States
  <2> QED BY <1>1, <2>3, <2>4 DEF Current
<1> QED BY <1>1, <1>3, <1>4 DEF IInv

LEMMA InitIInv == Init => IInv
<1> SUFFICES ASSUME Init PROVE IInv
  OBVIOUS
<1>1. TypeOK
  BY InitTypeOK
<1>2. \A s \in States, f \in File : s[f] = 0 /\ local[f] = 0
  BY DEF Init, States, Off, Forgotten
<1>3. NotAhead
  BY <1>2 DEF NotAhead
<1>4. SkippedIsStored
  BY DEF Init, SkippedIsStored, Existing
<1> QED BY <1>1, <1>3, <1>4 DEF IInv

LEMMA NextIInv == IInv /\ [Next]_vars => IInv'
<1> SUFFICES ASSUME IInv, [Next]_vars PROVE IInv'
  OBVIOUS
<1>1. TypeOK /\ stateFile \in States /\ Forgotten \in States
      /\ \A u \in Uploader : up[u].state \in States /\ up[u] \in UpState
  BY DEF IInv, States, TypeOK, UpState
<1>2. ASSUME TrainingEnds \/ UNCHANGED vars PROVE IInv'
  <2>1. /\ training' \in BOOLEAN
        /\ UNCHANGED <<local, remote, temp, stateFile, up, synced, torn, kills>>
    BY <1>1, <1>2 DEF TrainingEnds, vars, TypeOK
  <2>2. TypeOK' /\ States' = States
    BY <1>1, <2>1 DEF TypeOK, Existing, States
  <2> QED BY <2>1, <2>2, NothingNew
<1>3. ASSUME NEW u \in Uploader, NEW runOnce \in BOOLEAN, Start(u, runOnce) PROVE IInv'
  <2>1. PICK state \in {stateFile, Forgotten} :
          up' = [up EXCEPT ![u] = PassState(u, state, runOnce)]
    BY <1>1, <1>3, StartEffect
  <2>2. PassState(u, state, runOnce).state = state /\ state \in States
    BY <1>1 DEF PassState, UpState
  <2>3. States' \subseteq States
    BY <1>1, <1>3, <2>1, <2>2, KeepStates DEF Start
  <2> QED BY <1>1, <1>3, <2>3, StartTypeOK, NothingNew DEF Start
<1>4. ASSUME NEW u \in Uploader, NextPass(u) PROVE IInv'
  <2>1. PassFrom(up[u]).state = up[u].state
    BY <1>1 DEF PassFrom, UpState
  <2>2. TypeOK' /\ up' = [up EXCEPT ![u] = PassFrom(up[u])]
    BY <1>1, <1>4, NextPassTypeOK
  <2>3. States' \subseteq States
    BY <1>1, <1>4, <2>1, <2>2, KeepStates DEF NextPass
  <2> QED BY <1>4, <2>2, <2>3, NothingNew DEF NextPass
<1>5. ASSUME NEW u \in Uploader, NEW f \in up[u].todo, NotFound(u, f) \/ Skip(u, f)
      PROVE  IInv'
  <2>1. TodoState(u, f).state = up[u].state
    BY <1>1 DEF TodoState, UpState
  <2>2. TypeOK' /\ up' = [up EXCEPT ![u] = TodoState(u, f)]
    BY <1>1, <1>5, TodoTypeOK
  <2>3. UNCHANGED <<local, remote, torn, stateFile>>
    BY <1>5 DEF NotFound, Skip
  <2>4. States' \subseteq States
    BY <1>1, <2>1, <2>2, <2>3, KeepStates
  <2> QED BY <2>2, <2>3, <2>4, NothingNew
<1>6. ASSUME NEW u \in Uploader, NEW f \in up[u].todo, Begin(u, f) PROVE IInv'
  <2>1. BeginState(u, f).state = up[u].state
    BY <1>1 DEF BeginState, UpState
  <2>2. TypeOK' /\ up' = [up EXCEPT ![u] = BeginState(u, f)]
    BY <1>1, <1>6, BeginTypeOK
  <2>3. States' \subseteq States
    BY <1>1, <1>6, <2>1, <2>2, KeepStates DEF Begin
  <2> QED BY <1>6, <2>2, <2>3, NothingNew DEF Begin
<1>7. ASSUME NEW u \in Uploader, Compress(u) PROVE IInv'
  <2>1. CopyState(u).state = up[u].state /\ PlainState(u).state = up[u].state
    BY <1>1 DEF CopyState, PlainState, UpState
  <2>2. TypeOK' /\ \E s \in {CopyState(u), PlainState(u)} : up' = [up EXCEPT ![u] = s]
    BY <1>1, <1>7, CompressTypeOK
  <2>3. States' \subseteq States
    BY <1>1, <1>7, <2>1, <2>2, KeepStates DEF Compress
  <2> QED BY <1>7, <2>2, <2>3, NothingNew DEF Compress
<1>8. ASSUME NEW u \in Uploader, Copied(u) PROVE IInv'
  <2>1. TypeOK'
    BY <1>1, <1>8, CopiedTypeOK
  <2>2. PICK form : up' = [up EXCEPT ![u] = CopiedState(u, form)]
    BY <1>1, <1>8, CopiedTypeOK
  <2>3. CopiedState(u, form).state = up[u].state
    BY <1>1 DEF CopiedState, UpState
  <2>4. States' \subseteq States
    BY <1>1, <1>8, <2>2, <2>3, KeepStates DEF Copied
  <2> QED BY <1>8, <2>1, <2>4, NothingNew DEF Copied
<1>9. ASSUME NEW u \in Uploader, PutReads(u) PROVE IInv'
  <2>1. PICK source : source = IF up[u].form = "gz" THEN Copy(u) ELSE Now(up[u].file)
    OBVIOUS
  <2>2. TypeOK' /\ up' = [up EXCEPT ![u] = SentState(u, source)]
    BY <1>1, <1>9, <2>1, PutReadsTypeOK
  <2>3. SentState(u, source).state = up[u].state
    BY <1>1 DEF SentState, UpState
  <2>4. UNCHANGED <<local, remote, torn, stateFile>>
    BY <1>9 DEF PutReads
  <2>5. States' \subseteq States
    BY <1>1, <2>2, <2>3, <2>4, KeepStates
  <2> QED BY <2>2, <2>4, <2>5, NothingNew
<1>10. ASSUME NEW u \in Uploader, EndPass(u) \/ PassRaises(u) PROVE IInv'
  <2>1. Off.state = Forgotten /\ SleepState(u).state = up[u].state
    BY DEF Off, SleepState
  <2>2. TypeOK' /\ \E s \in {Off, SleepState(u)} : up' = [up EXCEPT ![u] = s]
    BY <1>1, <1>10, AfterPassTypeOK
  <2>3. stateFile' \in States /\ UNCHANGED <<local, remote, torn>>
    BY <1>1, <1>10 DEF EndPass, PassRaises
  <2>4. States' \subseteq States
    BY <1>1, <2>1, <2>2, <2>3, KeepStates
  <2> QED BY <2>2, <2>3, <2>4, NothingNew
<1>11. ASSUME NEW u \in Uploader, Kill(u) PROVE IInv'
  <2>1. Off.state = Forgotten
    BY DEF Off
  <2>2. TypeOK' /\ up' = [up EXCEPT ![u] = Off]
    BY <1>1, <1>11, KillTypeOK
  <2>3. stateFile' \in States /\ UNCHANGED <<local, remote, torn>>
    BY <1>1, <1>11 DEF Kill
  <2>4. States' \subseteq States
    BY <1>1, <2>1, <2>2, <2>3, KeepStates
  <2> QED BY <2>2, <2>3, <2>4, NothingNew
<1> QED BY <1>2, <1>3, <1>4, <1>5, <1>6, <1>7, <1>8, <1>9, <1>10, <1>11, WriteIInv,
           PutReturnsIInv, PutFailsIInv DEF Next, Step

\* IInv is inductive.
THEOREM UploaderIInv == Spec => []IInv
BY InitIInv, NextIInv, PTL DEF Spec

\* The uploaders' state keeps its type, and a file is in hand exactly while one is
\* uploaded (S3Uploader.upload_once, s3_uploader.py:301-353).
THEOREM UploaderTypeOK == Spec => []TypeOK
<1>1. IInv => TypeOK
  BY DEF IInv
<1> QED BY <1>1, UploaderIInv, PTL

\* Whatever fails, is killed or is lost with the state file, and however many uploaders
\* share it: a file that will be skipped is in the bucket as it is on the disk, unless it
\* changed during its upload (_needs_upload and _remember_uploaded, s3_uploader.py:201-225).
THEOREM UploaderSkippedIsStored == Spec => []SkippedIsStored
<1>1. IInv => SkippedIsStored
  BY DEF IInv
<1> QED BY <1>1, UploaderIInv, PTL

--------------------------------------------------------------------------------
(* An uploader that runs alone                                                  *)

\* What an uploader puts, from when it is read to when it is stored.
Own(f) == [of : {f}, version : 1..local[f]]
Holds(u) ==
    \/ up[u].at \in {"copying", "sent"}
    \/ up[u].at = "put" /\ up[u].form = "gz"
InFlight(u) == IF up[u].at = "put" THEN Copy(u) ELSE up[u].sent

\* The form is set for one file at a time.
PlainFirst ==
    \A u \in Uploader :
        up[u].at \in {"off", "sleep", "pass", "compress", "copying"} => up[u].form = "plain"

\* A put holds a version of its own file, and no older one than is stored.
OwnInFlight ==
    \A u \in Uploader : Holds(u) =>
        /\ InFlight(u) \in Own(up[u].file)
        /\ \A k \in Form : remote[up[u].file][k].version <= InFlight(u).version

SInv == PlainFirst /\ OwnContentOnly /\ OwnInFlight

\* No key holds a version that is not written yet.
LEMMA StoredNotAhead ==
    ASSUME TypeOK, OwnContentOnly, NEW f \in File, NEW k \in Form
    PROVE  remote[f][k].version \in Nat /\ remote[f][k].version <= local[f]
<1>1. remote[f][k] \in Content /\ local[f] \in Nat
  BY DEF TypeOK
<1>2. CASE remote[f][k] = Nothing
  BY <1>1, <1>2 DEF Nothing
<1>3. CASE remote[f][k] \in [of : {f}, version : 1..local[f]]
  BY <1>1, <1>3
<1> QED BY <1>2, <1>3 DEF OwnContentOnly

\* The file as it is now is its own content, and the newest.
LEMMA NowIsOwn ==
    ASSUME TypeOK, OwnContentOnly, NEW f \in Existing
    PROVE  Now(f) \in Own(f) /\ \A k \in Form : remote[f][k].version <= Now(f).version
<1>1. f \in File /\ local[f] \in Nat /\ local[f] > 0
  BY DEF Existing, TypeOK
<1>2. Now(f) \in Own(f) /\ Now(f).version = local[f]
  BY <1>1 DEF Now, Own
<1> QED BY <1>1, <1>2, StoredNotAhead

\* A step that stores nothing keeps SInv if its uploader holds nothing after it, or what it
\* held before.
LEMMA QuietSInv ==
    ASSUME TypeOK, SInv, NEW u \in Uploader, Uploader = {u}, NEW s, up' = [up EXCEPT ![u] = s],
           UNCHANGED <<local, remote>>,
           s.at \in {"off", "sleep", "pass", "compress", "copying"} => s.form = "plain",
           Holds(u)' => /\ InFlight(u)' \in Own(s.file)
                        /\ \A k \in Form : remote[s.file][k].version <= InFlight(u)'.version
    PROVE  SInv'
<1>1. up'[u] = s /\ \A w \in Uploader : w = u
  BY UpOthers
<1>2. PlainFirst'
  BY <1>1 DEF PlainFirst
<1>3. OwnContentOnly'
  BY DEF SInv, OwnContentOnly
<1>4. OwnInFlight'
  BY <1>1 DEF OwnInFlight, Own
<1> QED BY <1>2, <1>3, <1>4 DEF SInv

\* A step after which the uploader is between two files, or asleep, holds nothing.
LEMMA RestSInv ==
    ASSUME TypeOK, SInv, NEW u \in Uploader, Uploader = {u}, NEW s, up' = [up EXCEPT ![u] = s],
           UNCHANGED <<local, remote>>, s.at \in {"off", "sleep", "pass", "compress"},
           s.form = "plain"
    PROVE  SInv'
<1>1. up'[u] = s
  BY UpOthers
<1>2. ~Holds(u)'
  BY <1>1 DEF Holds
<1> QED BY <1>2, QuietSInv

LEMMA InitSInv == Init => SInv
<1> SUFFICES ASSUME Init PROVE SInv
  OBVIOUS
<1>1. \A u \in Uploader : up[u].at = "off" /\ up[u].form = "plain"
  BY DEF Init, Off
<1>2. OwnContentOnly
  BY DEF Init, OwnContentOnly
<1> QED BY <1>1, <1>2 DEF SInv, PlainFirst, OwnInFlight, Holds

LEMMA CompressSInv ==
    ASSUME TypeOK, SInv, NEW u \in Uploader, Uploader = {u}, Compress(u)
    PROVE  SInv'
<1> DEFINE f == up[u].file
<1>1. f \in Existing /\ f \in File /\ up[u] \in UpState /\ up[u].at = "compress"
      /\ UNCHANGED <<local, remote>>
  BY FileFacts DEF Compress
<1>2. Now(f) \in Own(f) /\ \A k \in Form : remote[f][k].version <= Now(f).version
  BY <1>1, NowIsOwn DEF SInv
<1>3. up[u].form = "plain"
  BY <1>1 DEF SInv, PlainFirst
<1>4. CASE up' = [up EXCEPT ![u] = CopyState(u)]
  <2>1. CopyState(u).at = "copying" /\ CopyState(u).form = "plain" /\ CopyState(u).file = f
        /\ CopyState(u).sent = Now(f)
    BY <1>1, <1>3 DEF CopyState, UpState
  <2>2. InFlight(u)' = Now(f)
    BY <1>4, <2>1, UpOthers DEF InFlight
  <2> QED BY <1>1, <1>2, <1>4, <2>1, <2>2, QuietSInv
<1>5. CASE up' = [up EXCEPT ![u] = PlainState(u)]
  <2>1. PlainState(u).at = "put" /\ PlainState(u).form = "plain"
    BY <1>1, <1>3 DEF PlainState, UpState
  <2>2. ~Holds(u)'
    BY <1>5, <2>1, UpOthers DEF Holds
  <2> QED BY <1>1, <1>5, <2>1, <2>2, QuietSInv
<1> QED BY <1>4, <1>5, CompressTypeOK

LEMMA CopiedSInv ==
    ASSUME TypeOK, SInv, NEW u \in Uploader, Uploader = {u}, Copied(u)
    PROVE  SInv'
<1> DEFINE f == up[u].file
<1>1. f \in File /\ up[u] \in UpState /\ up[u].at = "copying" /\ BaseName[f] \in Name
      /\ temp \in [Name -> Content] /\ UNCHANGED <<local, remote>>
  BY FileFacts DEF Copied, TypeOK
<1>2. PICK form \in Form :
        /\ up' = [up EXCEPT ![u] = CopiedState(u, form)]
        /\ temp' = [temp EXCEPT ![BaseName[f]] = IF form = "gz" THEN up[u].sent ELSE Nothing]
  BY CopiedTypeOK
<1>3. up[u].sent \in Own(f) /\ \A k \in Form : remote[f][k].version <= up[u].sent.version
  BY <1>1 DEF SInv, OwnInFlight, Holds, InFlight
<1>4. CopiedState(u, form).at = "put" /\ CopiedState(u, form).form = form
      /\ CopiedState(u, form).file = f
  BY <1>1 DEF CopiedState, UpState
<1>5. up'[u] = CopiedState(u, form)
  BY <1>2, UpOthers
<1>6. ASSUME Holds(u)' PROVE InFlight(u)' = up[u].sent
  <2>1. form = "gz"
    BY <1>4, <1>5, <1>6 DEF Holds
  <2>2. temp'[BaseName[f]] = up[u].sent
    BY <1>1, <1>2, <2>1
  <2> QED BY <1>4, <1>5, <2>2 DEF InFlight, Copy
<1> QED BY <1>1, <1>2, <1>3, <1>4, <1>6, QuietSInv

LEMMA PutReadsSInv ==
    ASSUME TypeOK, SInv, NEW u \in Uploader, Uploader = {u}, PutReads(u)
    PROVE  SInv'
<1> DEFINE f == up[u].file
<1>1. f \in File /\ f \in Existing /\ up[u] \in UpState /\ up[u].at = "put"
      /\ UNCHANGED <<local, remote>>
  BY FileFacts DEF PutReads
<1>2. PICK source : source = IF up[u].form = "gz" THEN Copy(u) ELSE Now(f)
  OBVIOUS
<1>3. up' = [up EXCEPT ![u] = SentState(u, source)]
  BY <1>2, PutReadsTypeOK
<1>4. source \in Own(f) /\ \A k \in Form : remote[f][k].version <= source.version
  <2>1. CASE up[u].form = "gz"
    BY <1>1, <1>2, <2>1 DEF SInv, OwnInFlight, Holds, InFlight
  <2>2. CASE up[u].form # "gz"
    BY <1>1, <1>2, <2>2, NowIsOwn DEF SInv
  <2> QED BY <2>1, <2>2
<1>5. SentState(u, source).at = "sent" /\ SentState(u, source).file = f
      /\ SentState(u, source).sent = source
  BY <1>1 DEF SentState, UpState
<1>6. InFlight(u)' = source
  BY <1>3, <1>5, UpOthers DEF InFlight
<1> QED BY <1>1, <1>3, <1>4, <1>5, <1>6, QuietSInv

\* A put stores what it has read: its file's own content, and nothing older than it was.
LEMMA StoresNewer ==
    ASSUME TypeOK, SInv, NEW u \in Uploader, up[u].at = "sent", Stored(u), UNCHANGED local
    PROVE  /\ OwnContentOnly'
           /\ \A f \in File, k \in Form : remote'[f][k].version >= remote[f][k].version
<1>1. PICK g, form : g = up[u].file /\ form = up[u].form
  OBVIOUS
<1>2. /\ g \in File /\ form \in Form /\ remote \in [File -> [Form -> Content]]
      /\ remote' = [remote EXCEPT ![g][form] = up[u].sent]
  BY <1>1, FileFacts DEF Stored, TypeOK
<1>3. up[u].sent \in Own(g) /\ remote[g][form].version <= up[u].sent.version
  BY <1>1, <1>2 DEF SInv, OwnInFlight, Holds, InFlight
<1>4. /\ remote'[g][form] = up[u].sent
      /\ \A f \in File, k \in Form : remote'[f][k] = remote[f][k] \/ (f = g /\ k = form)
  BY <1>2
<1>5. OwnContentOnly'
  BY <1>3, <1>4 DEF SInv, OwnContentOnly, Own
<1>6. \A f \in File, k \in Form : remote[f][k].version \in Nat
  BY StoredNotAhead DEF SInv
<1>7. up[u].sent.version \in Int
  BY <1>2, <1>3 DEF Own, TypeOK
<1> QED BY <1>3, <1>4, <1>5, <1>6, <1>7

LEMMA LeaveSInv ==
    ASSUME TypeOK, SInv, NEW u \in Uploader, Uploader = {u},
           PutReturns(u) \/ PutFails(u) \/ CopyGone(u)
    PROVE  SInv'
<1>1. up[u].at \in {"put", "sent"} /\ UNCHANGED local
      /\ up[u] \in UpState
  BY DEF PutReturns, PutFails, CopyGone, LeaveFile, TypeOK, UpState
<1>2. \E state, failed : up' = [up EXCEPT ![u] = LeftState(u, state, failed)]
  BY PutReturnsTypeOK, PutFailsTypeOK
<1>3. up'[u].at = "pass" /\ up'[u].form = "plain" /\ \A w \in Uploader : w = u
  <2>1. PICK state, failed : up' = [up EXCEPT ![u] = LeftState(u, state, failed)]
    BY <1>2
  <2>2. LeftState(u, state, failed).at = "pass" /\ LeftState(u, state, failed).form = "plain"
    BY <1>1 DEF LeftState, UpState
  <2> QED BY <2>1, <2>2, UpOthers
<1>4. PlainFirst' /\ OwnInFlight'
  BY <1>3 DEF PlainFirst, OwnInFlight, Holds
<1>5. OwnContentOnly'
  <2>1. CASE Stored(u) /\ up[u].at = "sent"
    BY <1>1, <2>1, StoresNewer
  <2>2. CASE UNCHANGED remote
    BY <1>1, <2>2 DEF SInv, OwnContentOnly
  <2> QED BY <2>1, <2>2 DEF PutReturns, PutFails, CopyGone
<1> QED BY <1>4, <1>5 DEF SInv

LEMMA WriteSInv ==
    ASSUME TypeOK, SInv, NEW f \in File, Write(f)
    PROVE  SInv'
<1>1. /\ \A g \in File : local[g] \in Nat /\ local'[g] \in Nat /\ local[g] <= local'[g]
      /\ UNCHANGED <<remote, temp, up>>
  BY WriteTypeOK DEF Write, TypeOK
<1>2. \A g \in File : 1..local[g] \subseteq 1..local'[g]
  BY <1>1
<1>3. OwnContentOnly'
  BY <1>1, <1>2 DEF SInv, OwnContentOnly
<1>4. OwnInFlight'
  <2> SUFFICES ASSUME NEW u \in Uploader, Holds(u)
               PROVE  /\ InFlight(u)' \in [of : {up[u].file}, version : 1..local'[up[u].file]]
                      /\ \A k \in Form : remote[up[u].file][k].version <= InFlight(u)'.version
    BY <1>1 DEF OwnInFlight, Holds, Own
  <2>1. InFlight(u)' = InFlight(u) /\ up[u].file \in File
    BY <1>1, FileFacts DEF InFlight, Copy, Holds
  <2>2. InFlight(u) \in Own(up[u].file)
        /\ \A k \in Form : remote[up[u].file][k].version <= InFlight(u).version
    BY DEF SInv, OwnInFlight
  <2> QED BY <1>2, <2>1, <2>2 DEF Own
<1>5. PlainFirst'
  BY <1>1 DEF SInv, PlainFirst
<1> QED BY <1>3, <1>4, <1>5 DEF SInv

\* One uploader, alone with its copies.
LEMMA AloneNext ==
    ASSUME NEW u, Uploader = {u}, TypeOK, SInv, [Next]_vars
    PROVE  SInv'
<1>1. u \in Uploader /\ up[u] \in UpState
  BY DEF TypeOK, UpState
<1>2. ASSUME TrainingEnds \/ UNCHANGED vars PROVE SInv'
  <2>1. UNCHANGED <<local, remote, temp, up>>
    BY <1>2 DEF TrainingEnds, vars
  <2> QED BY <2>1 DEF SInv, PlainFirst, OwnContentOnly, OwnInFlight, Holds, InFlight, Own, Copy
<1>3. ASSUME NEW runOnce \in BOOLEAN, Start(u, runOnce) PROVE SInv'
  <2>1. PICK state : up' = [up EXCEPT ![u] = PassState(u, state, runOnce)]
    BY <1>1, <1>3, StartEffect
  <2>2. up[u].form = "plain"
    BY <1>1, <1>3 DEF Start, SInv, PlainFirst
  <2>3. PassState(u, state, runOnce).at = "pass" /\ PassState(u, state, runOnce).form = "plain"
    BY <1>1, <2>2 DEF PassState, UpState
  <2> QED BY <1>1, <1>3, <2>1, <2>3, RestSInv DEF Start
<1>4. ASSUME NextPass(u) PROVE SInv'
  <2>1. up' = [up EXCEPT ![u] = PassFrom(up[u])]
    BY <1>1, <1>4, NextPassTypeOK
  <2>2. up[u].form = "plain"
    BY <1>1, <1>4 DEF NextPass, SInv, PlainFirst
  <2>3. PassFrom(up[u]).at = "pass" /\ PassFrom(up[u]).form = "plain"
    BY <1>1, <2>2 DEF PassFrom, UpState
  <2> QED BY <1>1, <1>4, <2>1, <2>3, RestSInv DEF NextPass
<1>5. ASSUME NEW f \in up[u].todo, NotFound(u, f) \/ Skip(u, f) PROVE SInv'
  <2>1. up' = [up EXCEPT ![u] = TodoState(u, f)]
    BY <1>1, <1>5, TodoTypeOK
  <2>2. up[u].at = "pass" /\ UNCHANGED <<local, remote>>
    BY <1>5 DEF NotFound, Skip, Found
  <2>3. up[u].form = "plain"
    BY <1>1, <2>2 DEF SInv, PlainFirst
  <2>4. TodoState(u, f).at = "pass" /\ TodoState(u, f).form = "plain"
    BY <1>1, <2>2, <2>3 DEF TodoState, UpState
  <2> QED BY <1>1, <2>1, <2>2, <2>4, RestSInv
<1>6. ASSUME NEW f \in up[u].todo, Begin(u, f) PROVE SInv'
  <2>1. up' = [up EXCEPT ![u] = BeginState(u, f)]
    BY <1>1, <1>6, BeginTypeOK
  <2>2. up[u].form = "plain"
    BY <1>1, <1>6 DEF Begin, Found, SInv, PlainFirst
  <2>3. BeginState(u, f).at = "compress" /\ BeginState(u, f).form = "plain"
    BY <1>1, <2>2 DEF BeginState, UpState
  <2> QED BY <1>1, <1>6, <2>1, <2>3, RestSInv DEF Begin
<1>7. ASSUME EndPass(u) \/ PassRaises(u) \/ Kill(u) PROVE SInv'
  <2>1. PICK s \in {Off, SleepState(u)} : up' = [up EXCEPT ![u] = s]
    BY <1>1, <1>7, AfterPassTypeOK, KillTypeOK
  <2>2. s.at \in {"off", "sleep"} /\ s.form = "plain"
    <3>1. Off.at = "off" /\ Off.form = "plain"
      BY DEF Off
    <3>2. SleepState(u).at = "sleep" /\ SleepState(u).form = "plain"
      BY DEF SleepState, Off
    <3> QED BY <2>1, <3>1, <3>2
  <2>3. UNCHANGED <<local, remote>>
    BY <1>7 DEF EndPass, PassRaises, Kill
  <2> QED BY <1>1, <2>1, <2>2, <2>3, RestSInv
<1> QED BY <1>1, <1>2, <1>3, <1>4, <1>5, <1>6, <1>7, CompressSInv, CopiedSInv, PutReadsSInv,
           LeaveSInv, WriteSInv DEF Next, Step

LEMMA AloneSInv == ASSUME NEW u, Uploader = {u} PROVE Spec => []SInv
<1>1. IInv /\ SInv /\ [Next]_vars => SInv'
  BY AloneNext DEF IInv
<1> QED BY InitSInv, <1>1, UploaderIInv, PTL DEF Spec

\* While one uploader runs at a time, the keys of a file hold that file only: not a copy
\* of another of the same base name, nor one that a kill has left behind half written
\* (_compress_file and the finally that unlinks it, s3_uploader.py:243-270 and 340-346).
THEOREM UploaderOwnContentOnly == ASSUME NEW u, Uploader = {u} PROVE Spec => []OwnContentOnly
<1>1. SInv => OwnContentOnly
  BY DEF SInv
<1> QED BY <1>1, AloneSInv, PTL

\* And no object is replaced by an older version of its file, whatever is written while a
\* copy is made and put, or killed in between (upload_once, s3_uploader.py:301-353).
THEOREM UploaderNeverBack == ASSUME NEW u, Uploader = {u} PROVE Spec => NeverBack
<1> DEFINE Newer == \A f \in File, k \in Form : remote'[f][k].version >= remote[f][k].version
<1>1. IInv /\ SInv /\ [Next]_vars => [Newer]_vars
  <2> SUFFICES ASSUME TypeOK, SInv, [Next]_vars PROVE Newer
    BY DEF IInv
  <2>1. CASE UNCHANGED remote
    <3>1. \A f \in File, k \in Form : remote[f][k].version \in Nat
      BY StoredNotAhead DEF SInv
    <3> QED BY <2>1, <3>1
  <2>2. CASE up[u].at = "sent" /\ Stored(u) /\ UNCHANGED local
    BY <2>2, StoresNewer
  <2>3. ASSUME PutReturns(u) \/ PutFails(u) \/ CopyGone(u)
        PROVE  UNCHANGED remote \/ (up[u].at = "sent" /\ Stored(u) /\ UNCHANGED local)
    BY <2>3 DEF PutReturns, PutFails, CopyGone, LeaveFile
  <2> QED BY <2>1, <2>2, <2>3 DEF Next, Step, Write, TrainingEnds, Start, NextPass, NotFound, Skip,
             Begin, Compress, Copied, PutReads, EndPass, PassRaises, Kill, vars
<1>2. Spec => [][Newer]_vars
  BY <1>1, UploaderIInv, AloneSInv, PTL DEF Spec
<1> QED BY <1>2 DEF NeverBack
================================================================================
