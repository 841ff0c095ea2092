----------------------------- MODULE MCProgram ------------------------------
(***************************************************************************)
(* A program and the command line that Execute parses before anything else.*)
(* Its options are two of TProgram's, one without a long name and one      *)
(* without a short one; a second set has one without a short name that     *)
(* takes an argument.                                                      *)
(***************************************************************************)
EXTENDS Program

CONSTANT
    CommandLine     \* whether command lines are read as they were meant

NoName0 == "none"

Option0(short, long, argument) ==
    [shortName |-> short, longName |-> long, requiresArgument |-> argument]

Added0 ==
    <<Option0("c", "config", TRUE), Option0("v", "verbose", FALSE),
      Option0("a", NoName0, TRUE), Option0(NoName0, "quiet", FALSE)>>

CommandLines(added) == INSTANCE GetOpts WITH
    NoName <- NoName0,
    Added <- added,
    Words <- {<<>>, <<"a">>, <<"-">>, <<"-", "v">>, <<"=", "a", "=">>, <<"-", "-">>}

Exact ==
    /\ CommandLines(Added0)!OptionsExact
    /\ CommandLines(<<Option0("v", "verbose", FALSE), Option0(NoName0, "level", TRUE)>>)
           !OptionsExact

CommandLine0 == LET exact == Exact IN exact

\* What Execute reads from the command line before it starts anything is what was
\* meant by it, however the options are written, over the bounds of GetOpts.tla
\* (getopts.cpp:26-124, program.ipp:33-36).
OptionsExact == phase = "boot" => CommandLine

=============================================================================
