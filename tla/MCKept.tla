------------------------------- MODULE MCKept -------------------------------
(* Small instances of Journal, kept in a file and kept in memory.           *)
EXTENDS MCJournal

(* The journal of a session is in a file, that of a served one in memory.   *)
VARIABLE kept

Memory == INSTANCE Journal WITH Spill <- FALSE, Budget <- Drops

Either(A, B) == ((kept = "file" /\ A) \/ (kept = "memory" /\ B)) /\ UNCHANGED kept

EitherInit == (kept = "file" /\ Init) \/ (kept = "memory" /\ Memory!Init)

EitherSpec == EitherInit /\ [][Either(Next, Memory!Next)]_<<kept, vars>>

(* The fairness of Journal, for both kinds.                                 *)
EitherFair ==
    /\ EitherSpec
    /\ WF_vars(Either(Writer, Memory!Writer))
    /\ WF_vars(Either(FanOut, Memory!FanOut))
    /\ WF_vars(Either(WriterExit \/ FailExit, Memory!WriterExit \/ Memory!FailExit))
    /\ WF_vars(Either(Reopen \/ Refuse, Memory!Reopen \/ Memory!Refuse))
    /\ \A c \in Clients : WF_vars(Either(Subscriber(c), Memory!Subscriber(c)))

(* Where there is a file it stands: it covers the window when the writer    *)
(* has caught up, and what a flush has been asked for is out of a power     *)
(* cut's reach.                                                             *)
FileHolds == kept = "file" => FileStands

(* Where there is a file, Close leaves it whole and flushed, until a process*)
(* crashes, or one begins on the file that a failed write left.             *)
FileDrained ==
    kept = "file" /\ Unspent("crash") /\ (Unspent("disk") \/ life = 0) => CloseDrains
=============================================================================
