------------------------------- MODULE Watch -------------------------------
(***************************************************************************)
(* mai render and mai watch: core/src/commands/render.ts and watch.ts.     *)
(* A watcher renders once, then listens to the file and renders again      *)
(* 300 ms after the last change it heard of.  Meanwhile an author saves    *)
(* the file, by truncating and filling it piece by piece or by renaming    *)
(* another file over it, and whoever started the watcher may stop it.      *)
(*                                                                         *)
(* A draft is what parse and execute make of a text: whether the parse     *)
(* throws, whether there are errors and warnings, and the output as a      *)
(* sequence of pieces, each with its length and, if it is a section, its   *)
(* priority.  How long 300 ms are is left out: the timer fires at any time *)
(* after it was set.                                                       *)
(*                                                                         *)
(* A definition that stands just before the one it alters is a mutant.     *)
(***************************************************************************)
EXTENDS Integers, SequencesExt

CONSTANTS
    Drafts,      \* what the author saves
    Halves,      \* what the file holds while it is truncated and filled
    Budgets,     \* values of --budget
    NoOutput     \* no output was written yet

Ranks == <<"critical", "high", "medium", "low">>

Outside == "outside"   \* the priority of what is in no section

\* The comment that stands for a section that was left out.
Omitted == [priority |-> "omitted", length |-> 0]

\* An empty file has no header, which is an error.
Truncated == [parses |-> TRUE, errors |-> TRUE, warnings |-> FALSE, pieces |-> <<>>]

\* What the file may hold.
Contents == Drafts \cup Halves

ASSUME WatchAssumption ==
    /\ \A d \in Contents :
          /\ {d.parses, d.errors, d.warnings} \subseteq BOOLEAN
          /\ d.pieces \in Seq([priority : {Outside} \cup Range(Ranks), length : Nat])
    /\ Truncated \in Halves /\ Halves \cap Drafts = {}
    /\ Budgets \subseteq Nat

VARIABLES
    strict,      \* --strict was given
    file,        \* what the path holds
    filling,     \* the author has truncated the file and not filled it whole yet
    watcher,     \* what the process is about
    listening,   \* what node:fs watches for it
    news,        \* an event is waiting for the event loop
    timer,       \* debounceTimer is set
    output,      \* what the output file holds
    missed,      \* history: a change since the last render that nobody heard of
    printed      \* the last answer of mai render --budget

watchVars ==
    <<strict, file, filling, watcher, listening, news, timer, output, missed, printed>>

-----------------------------------------------------------------------------
(* render.ts *)

estimateTokens(length) == (length + 3) \div 4

Sections(d) == { i \in DOMAIN d.pieces : d.pieces[i].priority # Outside }

Rank(d, i) == CHOOSE r \in DOMAIN Ranks : Ranks[r] = d.pieces[i].priority

\* The sort is stable: equal priorities stay in the order of the text.
Before(d, i, j) == Rank(d, i) < Rank(d, j) \/ (Rank(d, i) = Rank(d, j) /\ i < j)

Cost(d, i) == estimateTokens(d.pieces[i].length)

\* The sum of the numbers f[1] to f[n].
SumOf(f, n) == LET sum[k \in 0..n] == IF k = 0 THEN 0 ELSE sum[k - 1] + f[k] IN sum[n]

SumOver(d, S, f) == SumOf([i \in DOMAIN d.pieces |-> IF i \in S THEN f[i] ELSE 0], Len(d.pieces))

Lengths(d) == [i \in DOMAIN d.pieces |-> d.pieces[i].length]
Costs(d)   == [i \in DOMAIN d.pieces |-> Cost(d, i)]

Base(d) == estimateTokens(SumOver(d, DOMAIN d.pieces \ Sections(d), Lengths(d)))

Critical(d) == { i \in Sections(d) : d.pieces[i].priority = "critical" }

\* When a section's turn comes, behind all those that are before it.
TurnOf(d, i) == Rank(d, i) * Len(d.pieces) + i

\* Walks the sections by rank and keeps each that still fits, also behind one
\* that did not; a critical section is kept and not paid for.
SpendBeforePaying(d, left, i) ==
    IF left.tokens < Cost(d, i) THEN left ELSE [left EXCEPT !.keep = @ \cup {i}]

Spend(d, left, i) ==
    IF left.tokens < Cost(d, i) THEN left
    ELSE [tokens |-> left.tokens - Cost(d, i), keep |-> left.keep \cup {i}]

Affordable(d, budget) ==
    LET turns == (Len(Ranks) + 1) * Len(d.pieces)
        left[k \in 0..turns] ==
            LET turn == { i \in Sections(d) \ Critical(d) : TurnOf(d, i) = k }
            IN IF k = 0 THEN [tokens |-> budget - Base(d), keep |-> {}]
               ELSE IF turn = {} THEN left[k - 1]
               ELSE Spend(d, left[k - 1], CHOOSE i \in turn : TRUE)
    IN left[turns].keep

\* Without a budget all sections stay, and only their markers go.
Keep(d, budget) ==
    IF budget = 0 THEN Sections(d) ELSE Critical(d) \cup Affordable(d, budget)

applyBudget(d, budget) ==
    [i \in DOMAIN d.pieces |->
        IF i \in Sections(d) \ Keep(d, budget) THEN Omitted ELSE d.pieces[i]]

ExitsClean(d) == d.parses /\ ~ d.errors /\ ~ (strict /\ d.warnings)

runRender(d, budget) ==
    IF d.parses THEN applyBudget(d, budget) ELSE <<>>

-----------------------------------------------------------------------------
(* watch.ts *)

\* render() of watch.ts: a failing render leaves the output file alone.
Rerender ==
    /\ output' = IF ExitsClean(file) THEN runRender(file, 0) ELSE output
    /\ missed' = FALSE

RenderFirst ==
    /\ watcher = "starting"
    /\ watcher' = "rendered"
    /\ Rerender
    /\ UNCHANGED <<strict, file, filling, listening, news, timer, printed>>

Listen ==
    /\ watcher = "rendered"
    /\ watcher' = "watching" /\ listening' = "file"
    /\ UNCHANGED <<strict, file, filling, news, timer, output, missed, printed>>

\* A change sets the timer anew, whether or not it was set.
HearClearing ==
    /\ watcher = "watching" /\ news
    /\ news' = FALSE /\ timer' = ~ timer
    /\ UNCHANGED <<strict, file, filling, watcher, listening, output, missed, printed>>

Hear ==
    /\ watcher = "watching" /\ news
    /\ news' = FALSE /\ timer' = TRUE
    /\ UNCHANGED <<strict, file, filling, watcher, listening, output, missed, printed>>

FireForgetting ==
    /\ timer
    /\ timer' = FALSE
    /\ UNCHANGED <<strict, file, filling, watcher, listening, news, output, missed, printed>>

\* stop() closes the watcher and leaves the timer.
Fire ==
    /\ timer
    /\ timer' = FALSE
    /\ Rerender
    /\ UNCHANGED <<strict, file, filling, watcher, listening, news, printed>>

\* The 'error' handler goes on with the directory, and asks for the file name.
\* It closes the watcher of the file first: what that one had not delivered is
\* lost, and nobody looks at the file again for it.
FallBack ==
    /\ watcher = "watching" /\ listening \in {"file", "another file"}
    /\ listening' = "directory"
    /\ news' = FALSE /\ missed' = (missed \/ news)
    /\ UNCHANGED <<strict, file, filling, watcher, timer, output, printed>>

Stop ==
    /\ watcher = "watching"
    /\ watcher' = "stopped" /\ listening' = "nothing" /\ news' = FALSE
    /\ UNCHANGED <<strict, file, filling, timer, output, missed, printed>>

-----------------------------------------------------------------------------
(* The author and node:fs.  A file is watched by its inode: once another     *)
(* file was renamed over it, the watcher listens to one that is gone.        *)

Notify ==
    /\ news' = (news \/ listening \in {"file", "directory"})
    /\ missed' = (missed \/ listening \notin {"file", "directory"})

\* The file is emptied, or another part of it is written.
SavePart(h) ==
    /\ file # h
    /\ filling' = TRUE /\ file' = h
    /\ Notify
    /\ UNCHANGED <<strict, watcher, listening, timer, output, printed>>

Fill(d) ==
    /\ filling
    /\ filling' = FALSE /\ file' = d
    /\ Notify
    /\ UNCHANGED <<strict, watcher, listening, timer, output, printed>>

RenameOver(d) ==
    /\ ~ filling /\ file # d
    /\ file' = d
    /\ Notify
    /\ listening' = IF listening = "file" THEN "another file" ELSE listening
    /\ UNCHANGED <<strict, filling, watcher, timer, output, printed>>

\* mai render --budget, in another process: it reads the file at once.
RenderOnce(budget) ==
    /\ ExitsClean(file)
    /\ printed' = [draft |-> file, budget |-> budget, pieces |-> runRender(file, budget)]
    /\ UNCHANGED <<strict, file, filling, watcher, listening, news, timer, output, missed>>

-----------------------------------------------------------------------------
WatchInit ==
    /\ strict \in BOOLEAN
    /\ file \in Drafts /\ filling = FALSE
    /\ watcher = "starting" /\ listening = "nothing" /\ news = FALSE /\ timer = FALSE
    /\ output = NoOutput /\ missed = FALSE /\ printed = NoOutput

WatcherStep == RenderFirst \/ Listen \/ Hear \/ Fire

WatchNext ==
    \/ WatcherStep \/ FallBack \/ Stop
    \/ \E h \in Halves : SavePart(h)
    \/ \E d \in Drafts : Fill(d) \/ RenameOver(d)
    \/ \E b \in Budgets : RenderOnce(b)

WatchTypeOK ==
    /\ {strict, filling, news, timer, missed} \subseteq BOOLEAN
    /\ file \in Contents
    /\ watcher \in {"starting", "rendered", "watching", "stopped"}
    /\ listening \in {"nothing", "file", "another file", "directory"}
    /\ (printed = NoOutput \/ printed.draft \in Contents)

-----------------------------------------------------------------------------
(* Properties *)

\* Whenever the watcher has nothing left to do, the output is that of the file
\* as it is, through all bursts of changes; unless that file does not render, or
\* nobody heard of its last change: before watch(), behind a rename, or when the
\* watcher of the file failed with the change still to be delivered
\* (watch.ts:32-71).
IdleIsCurrent ==
    (watcher = "watching" /\ ~ news /\ ~ timer /\ ~ missed /\ ExitsClean(file))
    => output = runRender(file, 0)

\* A text with errors never reaches the output: that is always the whole output
\* of one text the file held, though of a half saved one if that has a header
\* (watch.ts:34-50, render.ts:139-183).
OutputIsWhole ==
    output # NoOutput => \E d \in Contents : ExitsClean(d) /\ output = runRender(d, 0)

\* What is in the output file is a whole render, and not an old one.
OutputIsCurrent == WatchTypeOK /\ OutputIsWhole /\ IdleIsCurrent

\* A section goes only for the budget, and never while one that matters no more
\* and costs no less stays; what is kept besides the critical ones is paid for
\* (render.ts:61-102).
BudgetGoesByRank ==
    printed # NoOutput =>
        LET d == printed.draft
            gone == { i \in DOMAIN d.pieces : printed.pieces[i] = Omitted }
            paid == Sections(d) \ (gone \cup Critical(d))
        IN /\ gone \subseteq Sections(d) \ Critical(d)
           /\ (printed.budget > 0 /\ paid # {})
              => Base(d) + SumOver(d, paid, Costs(d)) <= printed.budget
           /\ \A i \in gone, j \in paid : Before(d, i, j) => Cost(d, i) > Cost(d, j)

\* What the author saves while the watcher listens is rendered, if it can be,
\* or is replaced by something else before, or is lost with the watcher of the
\* file when that fails (watch.ts:55-71).
SavesAreRendered ==
    \A d \in Contents :
        (watcher = "watching" /\ file = d /\ ExitsClean(d) /\ ~ missed)
        ~> (output = runRender(d, 0) \/ file # d \/ missed \/ watcher = "stopped")

=============================================================================
