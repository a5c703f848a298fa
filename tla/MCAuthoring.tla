---------------------------- MODULE MCAuthoring ----------------------------
(* An instance of Authoring for TLC. *)
EXTENDS Authoring

Piece(priority, length) == [priority |-> priority, length |-> length]

Draft(parses, errors, warnings, pieces) ==
    [parses |-> parses, errors |-> errors, warnings |-> warnings, pieces |-> pieces]

\* A document with sections of all priorities, where a large one comes before
\* a small one; a plain one; one of a single large section; one with
\* warnings; one with errors; one whose parse throws.
MCDrafts == {
    Draft(TRUE, FALSE, FALSE,
          <<Piece("low", 4), Piece("high", 8), Piece(Outside, 5), Piece("medium", 12),
            Piece("high", 4), Piece("critical", 8), Piece("medium", 3)>>),
    Draft(TRUE, FALSE, FALSE, <<Piece("high", 16), Piece("high", 4), Piece("low", 1)>>),
    Draft(TRUE, FALSE, TRUE, <<Piece(Outside, 4)>>),
    Draft(TRUE, TRUE, FALSE, <<Piece(Outside, 8)>>),
    Draft(FALSE, TRUE, FALSE, <<>>) }

\* What a save leaves for a moment: the empty file, one cut behind its header,
\* and one cut within an @if.
MCHalves == {
    Truncated,
    Draft(TRUE, FALSE, FALSE, <<Piece(Outside, 2)>>),
    Draft(FALSE, TRUE, FALSE, <<Piece(Outside, 2)>>) }

MCBudgets == {0, 3, 5, 6, 20}

\* The blocks, with the author's settings left alone, and the macros, with
\* everything else in motion.
MCWorkloads == {
    [size |-> 4, settings |-> {}, libs |-> {}, stdlib |-> "absent",
     blocks |-> {"note", "if", "data"},
     lines |-> {Opener("note"), Opener("if"), Closer("note"), Closer("data"), Else}],
    [size |-> 2, libs |-> {{}, {"mine"}}, stdlib |-> "loading", blocks |-> {},
     settings |-> {[enabled |-> e, warn |-> w] : e, w \in BOOLEAN} \ {[enabled |-> FALSE, warn |-> FALSE]},
     lines |-> {Define("mine", FALSE), Define("mine", TRUE), Call("mine", FALSE), Call("mine", TRUE),
                Call("std", FALSE), Import, ImportSelfClosed}] }

MCMacros == {"mine", "std"}
MCStdlibMacros == {"std"}

=============================================================================
