------------------------------ MODULE MCResume ------------------------------
(* The instances of Resume that TLC checks.                                 *)
EXTENDS Resume

Line(typed, faults)   == [surface |-> "line", policy |-> "auto", typed |-> typed, faults |-> faults]
Screen(typed, faults) == [Line(typed, faults) EXCEPT !.surface = "screen"]
Manual(c)             == [c EXCEPT !.policy = "manual"]

All == {Line({"prompt", "same", "resume", "discard"}, {"save"}),
        Line({"prompt", "resume", "new", "exit"}, {"cancel"}),
        Line({"prompt", "resume", "continue", "exit"}, {"crash"}),
        Line({"resume", "continue", "discard"}, {"legacy", "refuse"}),
        Manual(Line(Commands, Faults)),
        Screen({"prompt", "resume"}, {"cancel"}), Screen({"prompt", "resume", "exit"}, {}),
        Screen({"prompt", "discard", "new"}, {"save"}), Screen({"prompt"}, {"crash"})}
=============================================================================
