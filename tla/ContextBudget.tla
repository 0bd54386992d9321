---------------------------- MODULE ContextBudget ----------------------------
(***************************************************************************)
(* rada.llm_integration.context: the limits of a model and the packing of  *)
(* prompt segments into them, segment by segment.  A text is its length,   *)
(* and tokens are estimated by the heuristic of estimate_tokens (tiktoken  *)
(* not installed): a token for every 40/11 characters, rounded down.       *)
(***************************************************************************)
EXTENDS Integers, Sequences, FiniteSets

CONSTANTS
    SegmentLists,   \* prompts: sequences of [size, protected, priority]
    LimitInputs,    \* what resolve_model_limits reads: window and reserve of the registry
                    \* entry and of config.extra, and the three caps (0: not set)
    Blank           \* with how much white space the beginning of a text may end

Segment == [size : Nat, protected : BOOLEAN, priority : Int]
LimitInput == [window : Nat, reserve : Nat, extra_window : Nat, extra_reserve : Nat,
               override : Nat, max_context_tokens : Nat, env_cap : Nat]

ASSUME BudgetAssumption ==
    SegmentLists \subseteq Seq(Segment) /\ LimitInputs \subseteq LimitInput /\ Blank \subseteq Nat

VARIABLES
    segments, limits,  \* the input, and what resolve_model_limits made of it
    todo,              \* segments still to pack
    budget,            \* tokens left
    kept,              \* what was kept: its parts, those of them with a text, characters
    cut, left          \* segments truncated, segments dropped

budgetVars == <<segments, limits, todo, budget, kept, cut, left>>

AtLeast(low, n) == IF n < low THEN low ELSE n
AtMost(high, n) == IF n > high THEN high ELSE n

--------------------------------------------------------------------------------
(* estimate_tokens, _separator_reserve, _truncate_to_tokens                    *)

Tokens(size) == IF size = 0 THEN 0 ELSE AtLeast(1, (11 * size) \div 40)
NoReserve(count) == 0
SeparatorReserve(count) == IF count <= 1 THEN 0 ELSE Tokens(2 * (count - 1))

\* The binary search finds the longest prefix within max tokens.
LongestPrefix(size, max) ==
    IF max <= 0 THEN 0 ELSE CHOOSE n \in 0..size :
        Tokens(n) <= max /\ \A longer \in (n + 1)..size : Tokens(longer) > max

\* A text that is really cut loses the white space it then ends with, all of it perhaps.
TruncateToTokens(size, max, blank) ==
    LET best == LongestPrefix(size, max)
    IN  IF best = size THEN size ELSE AtLeast(0, best - blank)

(* resolve_model_limits                                                        *)

Set(n, otherwise) == IF n # 0 THEN n ELSE otherwise
Cap(a, b) == IF a = 0 THEN b ELSE IF b = 0 THEN a ELSE AtMost(a, b)

Difference(context, reserve) == context - reserve
MaxInput(context, reserve) == AtLeast(1, context - reserve)

ResolveLimits(i) ==
    LET override == Cap(Cap(i.override, i.max_context_tokens), i.env_cap)
        window == Set(i.extra_window, i.window)
        context == IF override = 0 THEN window ELSE AtMost(override, window)
        reserve == Set(i.extra_reserve, i.reserve)
    IN  [context_window |-> context, reserve_output |-> reserve,
         max_input |-> MaxInput(context, reserve)]

(* ContextBudget.assemble                                                      *)

Protected == {i \in DOMAIN segments : segments[i].protected}

\* The protected segments as they come, then the others by priority.
PackedBefore(i, j) ==
    IF segments[i].protected \/ segments[j].protected
    THEN segments[i].protected /\ (segments[j].protected => i < j)
    ELSE \/ segments[i].priority < segments[j].priority
         \/ segments[i].priority = segments[j].priority /\ i < j

BudgetInit ==
    /\ segments \in SegmentLists
    /\ limits \in {ResolveLimits(i) : i \in LimitInputs}
    /\ todo = DOMAIN segments
    /\ budget = limits.max_input
    /\ kept = [parts |-> 0, texts |-> 0, chars |-> 0] /\ cut = {} /\ left = {}

Reserve == SeparatorReserve(kept.parts + 1)
Packed(size) ==
    /\ kept' = [parts |-> kept.parts + 1, chars |-> kept.chars + size,
                texts |-> kept.texts + (IF size > 0 THEN 1 ELSE 0)]
    /\ budget' = budget - Tokens(size) - Reserve

KeepWhole(i) ==
    /\ Tokens(segments[i].size) + Reserve <= budget
    /\ Packed(segments[i].size) /\ UNCHANGED <<cut, left>>

\* What is left for a segment that does not fit: a protected one always gets a token.
RoomFor(i) == IF segments[i].protected THEN AtLeast(1, budget - Reserve) ELSE budget - Reserve

Truncate(i) ==
    /\ Tokens(segments[i].size) + Reserve > budget
    /\ \E blank \in Blank :
         LET size == TruncateToTokens(segments[i].size, RoomFor(i), blank)
         IN  IF size > 0
             THEN Packed(size) /\ cut' = cut \cup {i} /\ UNCHANGED left
             ELSE left' = left \cup {i} /\ UNCHANGED <<kept, cut, budget>>

Pack ==
    /\ \E i \in todo :
         /\ \A j \in todo \ {i} : PackedBefore(i, j)
         /\ todo' = todo \ {i}
         /\ KeepWhole(i) \/ Truncate(i)
    /\ UNCHANGED <<segments, limits>>

BudgetNext == Pack

BudgetSpec == BudgetInit /\ [][BudgetNext]_budgetVars

\* The text: what was kept, in the order of the segments, with separators between.
TextSize == kept.chars + 2 * (AtLeast(1, kept.texts) - 1)

--------------------------------------------------------------------------------

\* Every variable has its type.
BudgetTypeOK ==
    /\ segments \in SegmentLists /\ budget \in Int /\ limits.max_input \in Nat \ {0}
    /\ kept \in [parts : Nat, texts : Nat, chars : Nat] /\ kept.texts <= kept.parts
    /\ cut \cup left \subseteq DOMAIN segments

\* The prompt as estimated goes over the model's input limit only by what rounding loses,
\* less than a token per segment, and by the tokens (and separators) that protected segments
\* get when there is no room for them: two for each that was cut.
OvershootBounded ==
    LET over == Tokens(TextSize) - limits.max_input
    IN  todo = {} => over < AtLeast(1, kept.parts) + 2 * Cardinality(Protected \cap cut)
================================================================================
