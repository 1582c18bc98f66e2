---------------------------- MODULE VendorSession ----------------------------
(***************************************************************************)
(* One long-lived vendor process that answers turn after turn: the Claude  *)
(* session of internal/provider/agentcli over internal/shell's process.    *)
(*                                                                         *)
(* A prompt goes in by a queue, frames come out by a pipe, and nothing in  *)
(* a frame says which prompt it answers.  A turn that ends early waits for *)
(* the rest of its frames; when they do not come, the process is replaced. *)
(* The vendor keeps the conversation under a handle.  The next process     *)
(* resumes it, unless a kill left a turn in it that the vendor would go on *)
(* with ("the vendor CONTINUES it on the next --resume").  The session's   *)
(* file remembers the handle for the next start.                           *)
(*                                                                         *)
(* Prompts are numbered.  Every turn costs one; a process reports the sum  *)
(* of its turns.  Tools, text and limits are one kind of frame.            *)
(***************************************************************************)
EXTENDS Integers, Sequences, FiniteSets

CONSTANTS
    Mishaps,      \* what may happen to the process, the vendor and the caller
    MaxTurns,     \* bound of the model: prompts
    MaxHandles,   \* bound of the model: conversations
    MaxMishaps    \* bound of the model: mishaps

ASSUME VendorBoundsAssumption == {MaxTurns, MaxHandles, MaxMishaps} \subseteq Nat

Prompts == 1..MaxTurns
Handles == 1..MaxHandles
None    == 0

VARIABLES
    conv,      \* the vendor's: whether it keeps a conversation, the turn left open in it
    child,     \* the process, its pipes, and what has been done by it
    backend,   \* ClaudeBackend
    sess,      \* ClaudeSession
    turn,      \* the call of StreamChat: its prompt, and how far it is
    saved,     \* the handle in the session's file
    minted,    \* handles in use so far
    told,      \* history: how each turn ended
    ran,       \* history: how often a process took each prompt, and closed it
    again,     \* history: turns a vendor went on with after they had ended
    dead,      \* history: how many turns each dead conversation has cost
    mishaps    \* bound of the model

vendorVars == <<conv, child, backend, sess, turn, saved, minted, told, ran, again, dead, mishaps>>

NoChild   == [state |-> "none", conv |-> None, prompt |-> None, turn |-> None, worked |-> FALSE,
              out |-> <<>>, total |-> 0, hard |-> FALSE, resumes |-> FALSE]
NoSession == [on |-> FALSE, resumed |-> FALSE, unusable |-> FALSE, delivered |-> FALSE,
              closed |-> FALSE, ever |-> FALSE, named |-> None, spent |-> 0]
Backend(h) == [handle |-> h, resume |-> h # None, started |-> FALSE, confirmed |-> None,
               retired |-> FALSE, delivered |-> FALSE, closed |-> FALSE]
Between   == [at |-> "idle", prompt |-> None, retried |-> FALSE, cancelled |-> FALSE,
              ok |-> FALSE, answer |-> None, charge |-> 0, refused |-> {}]

Happens(m) == m \in Mishaps /\ mishaps < MaxMishaps /\ mishaps' = mishaps + 1

Latest == turn.prompt

-----------------------------------------------------------------------------
(* The vendor and its process.  What has been written can be read after the *)
(* process is gone; only then is it reaped.                                 *)

Running == child.state = "running"
Reaped  == child.state = "gone" /\ child.out = <<>>

Puts(f) == Append(child.out, f)
Frame(kind, p, h, total) == [kind |-> kind, of |-> p, conv |-> h, total |-> total]

VendorUnchanged == UNCHANGED <<backend, sess, turn, saved, minted, told, dead>>

(* A process that resumes what the vendor does not keep prints an error.    *)
VendorRefuses ==
    /\ Running /\ child.resumes /\ ~conv[child.conv].kept /\ child.turn = None
    /\ child' = [child EXCEPT !.state = "gone", !.prompt = None]
    /\ turn' = [turn EXCEPT !.refused = @ \cup {child.conv}]
    /\ UNCHANGED <<conv, backend, sess, saved, minted, told, ran, again, dead, mishaps>>

(* The first frame names the conversation: the one that was asked for, or   *)
(* on a resume a new name for it.  A turn that was left open goes on.       *)
VendorTakes(h) ==
    LET c == conv[child.conv] IN
    /\ Running /\ child.turn = None /\ child.prompt # None
    /\ c.kept \/ ~child.resumes
    /\ \/ h = child.conv /\ UNCHANGED <<minted, mishaps>>
       \/ /\ child.resumes /\ h = minted + 1 /\ minted' = h /\ Happens("rename")
    /\ child' = [child EXCEPT !.conv = h, !.turn = child.prompt, !.prompt = None,
                              !.out = Puts(Frame("init", child.prompt, h, 0)),
                              !.resumes = FALSE, !.worked = FALSE]
    /\ conv' = [conv EXCEPT ![h] = [kept |-> TRUE, open |-> None]]
    /\ again' = again \cup ({c.open} \cap {p \in Prompts : told[p].ended})
    /\ ran' = [ran EXCEPT ![child.prompt].times = @ + 1]
    /\ UNCHANGED <<backend, sess, turn, saved, told, dead>>

VendorWorks ==
    /\ Running /\ child.turn # None /\ ~child.worked
    /\ child' = [child EXCEPT !.worked = TRUE, !.out = Puts(Frame("work", child.turn, None, 0))]
    /\ UNCHANGED <<conv, ran, again, mishaps>> /\ VendorUnchanged

(* A line that is not a frame.                                              *)
VendorGarbles ==
    /\ Running /\ child.turn # None /\ Happens("garble")
    /\ child' = [child EXCEPT !.out = Puts(Frame("garbage", child.turn, None, 0))]
    /\ UNCHANGED <<conv, ran, again>> /\ VendorUnchanged

VendorCloses ==
    /\ Running /\ child.turn # None
    /\ child' = [child EXCEPT !.turn = None, !.total = @ + 1,
                              !.out = Puts(Frame("result", child.turn, child.conv, child.total + 1))]
    /\ ran' = [ran EXCEPT ![child.turn].closed = TRUE]
    /\ UNCHANGED <<conv, again, mishaps>> /\ VendorUnchanged

(* A frame after the result.                                                *)
VendorTrails ==
    /\ Running /\ child.turn = None /\ child.total > 0 /\ Happens("trail")
    /\ child' = [child EXCEPT !.out = Puts(Frame("trail", None, None, 0))]
    /\ UNCHANGED <<conv, ran, again>> /\ VendorUnchanged

VendorForgets(h) ==
    /\ conv[h].kept /\ ~(Running /\ child.conv = h) /\ Happens("forget")
    /\ conv' = [conv EXCEPT ![h].kept = FALSE]
    /\ UNCHANGED <<child, ran, again>> /\ VendorUnchanged

(* The end of a process, and the turn it leaves open in its conversation:   *)
(* one that ends by itself has ended its turn, one that a signal ends has   *)
(* not.  Claude answers SIGTERM with an exit code.                          *)
Ended(how) ==
    [child EXCEPT !.state = "gone", !.turn = None, !.prompt = None, !.hard = how = "kill"]
LeftOpen(how) ==
    IF how = "exit" \/ child.turn = None THEN conv
    ELSE [conv EXCEPT ![child.conv].open = child.turn]

(* Frames it has not yet written are lost with it.                          *)
VendorDies(how) ==
    /\ Running /\ Happens(how)
    /\ \E n \in 0..Len(child.out) :
         child' = [Ended(how) EXCEPT !.out = SubSeq(child.out, 1, n)]
    /\ conv' = LeftOpen(how)
    /\ UNCHANGED <<ran, again>> /\ VendorUnchanged

-----------------------------------------------------------------------------
(* ClaudeBackend.                                                           *)

ForgetHandle(b) ==
    [b EXCEPT !.handle = None, !.resume = FALSE, !.started = FALSE, !.retired = TRUE]

ProviderHandle == IF sess.on /\ sess.named # None THEN sess.named ELSE backend.handle
Confirmed ==
    \/ sess.on /\ sess.named # None
    \/ backend.handle # None /\ backend.handle = backend.confirmed

(* Close: the process leaves when its input ends, in its grace, or is       *)
(* killed.                                                                  *)
CloseProcess ==
    \E how \in {"exit", "kill"} :
        IF Running THEN child' = Ended(how) /\ conv' = LeftOpen(how)
        ELSE how = "exit" /\ UNCHANGED <<child, conv>>

BackendUnchanged == UNCHANGED <<saved, told, ran, again, dead>>
Reach(at) == turn' = [turn EXCEPT !.at = at]

Begin ==
    /\ turn.at = "idle" /\ Latest < MaxTurns
    /\ turn' = [Between EXCEPT !.at = "start", !.prompt = Latest + 1]
    /\ backend' = [backend EXCEPT !.delivered = FALSE, !.closed = FALSE]
    /\ UNCHANGED <<conv, child, sess, minted, mishaps>> /\ BackendUnchanged

(* getSession: the session there is, or a process for the conversation.     *)
KeepSession ==
    /\ turn.at = "start" /\ sess.on
    /\ Reach("send")
    /\ UNCHANGED <<conv, child, backend, sess, minted, mishaps>> /\ BackendUnchanged

Named(h) == [backend EXCEPT !.handle = h, !.retired = @ /\ backend.handle # None]
Fresh    == IF backend.handle = None THEN minted + 1 ELSE backend.handle

StartSession ==
    LET resume == backend.started \/ backend.resume IN
    /\ turn.at = "start" /\ ~sess.on /\ Fresh <= MaxHandles
    /\ minted' = IF Fresh > minted THEN Fresh ELSE minted
    /\ backend' = [Named(Fresh) EXCEPT !.started = TRUE]
    /\ child' = [NoChild EXCEPT !.state = "running", !.conv = Fresh, !.resumes = resume]
    /\ sess' = [NoSession EXCEPT !.on = TRUE, !.resumed = resume]
    /\ Reach("send")
    /\ UNCHANGED <<conv, mishaps>> /\ BackendUnchanged

(* The executable is missing or does not start.                             *)
NotStarted ==
    /\ turn.at = "start" /\ ~sess.on /\ Fresh <= MaxHandles /\ Happens("start")
    /\ minted' = IF Fresh > minted THEN Fresh ELSE minted
    /\ backend' = Named(Fresh)
    /\ Reach(IF turn.retried THEN "finish" ELSE "settle")
    /\ UNCHANGED <<conv, child, sess>> /\ BackendUnchanged

-----------------------------------------------------------------------------
(* ClaudeSession.TurnObserved.                                              *)

(* Queue: false only when the process is known to be gone.                  *)
Queued == ~Reaped

Send ==
    /\ turn.at = "send"
    /\ sess' = [sess EXCEPT !.delivered = Queued, !.closed = FALSE]
    /\ child' = IF Running THEN [child EXCEPT !.prompt = Latest] ELSE child
    /\ Reach("read")
    /\ UNCHANGED <<conv, backend, minted, mishaps>> /\ BackendUnchanged

(* observeTurnEvent, and chargeTurn on a result.                            *)
Seen(f) ==
    [sess EXCEPT !.ever = TRUE,
                 !.named = IF f.conv # None THEN f.conv ELSE @,
                 !.closed = @ \/ f.kind = "result",
                 !.spent = IF f.kind = "result" THEN f.total ELSE @]
Charge(f) == IF f.total >= sess.spent THEN f.total - sess.spent ELSE f.total

(* Mutant: a turn that ends early leaves the rest of its frames.            *)
NotDrained == [turn EXCEPT !.at = "note"]

Abandoned == [turn EXCEPT !.at = "drain"]

ReadFrame ==
    /\ turn.at = "read" /\ child.out # <<>>
    /\ LET f == Head(child.out) IN
       /\ sess' = Seen(f)
       /\ turn' = CASE f.kind = "result" -> [turn EXCEPT !.at = "note", !.ok = TRUE,
                                                !.answer = f.of, !.charge = Charge(f)]
                    [] f.kind = "garbage" -> Abandoned
                    [] OTHER -> turn
    /\ child' = [child EXCEPT !.out = Tail(@)]
    /\ UNCHANGED <<conv, backend, minted, mishaps>> /\ BackendUnchanged

(* The process is gone, while the turn reads or while it is abandoned.      *)
ReadEnd ==
    /\ turn.at \in {"read", "drain"} /\ Reaped
    /\ sess' = [sess EXCEPT !.unusable = TRUE]
    /\ Reach("note")
    /\ UNCHANGED <<conv, child, backend, minted, mishaps>> /\ BackendUnchanged

Cancel ==
    /\ turn.at = "read" /\ Happens("cancel")
    /\ turn' = [Abandoned EXCEPT !.cancelled = TRUE]
    /\ UNCHANGED <<conv, child, backend, sess, minted>> /\ BackendUnchanged

(* abandonTurn: what still comes is this turn's.                            *)
DrainFrame ==
    /\ turn.at = "drain" /\ child.out # <<>>
    /\ LET f == Head(child.out) IN
       /\ sess' = Seen(f)
       /\ turn' = IF f.kind = "result" THEN [turn EXCEPT !.at = "note", !.charge = Charge(f)]
                  ELSE turn
    /\ child' = [child EXCEPT !.out = Tail(@)]
    /\ UNCHANGED <<conv, backend, minted, mishaps>> /\ BackendUnchanged

(* resyncGrace.                                                             *)
DrainExpires ==
    /\ turn.at = "drain"
    /\ sess' = [sess EXCEPT !.unusable = TRUE]
    /\ Reach("note")
    /\ UNCHANGED <<conv, child, backend, minted, mishaps>> /\ BackendUnchanged

-----------------------------------------------------------------------------
(* StreamChatObserved, after the session's turn.                            *)

NoteTurn ==
    /\ turn.at = "note"
    /\ backend' = [backend EXCEPT
          !.delivered = @ \/ sess.delivered, !.closed = sess.closed,
          !.handle    = IF sess.named # None THEN sess.named ELSE @,
          !.confirmed = IF sess.named # None THEN sess.named ELSE @]
    /\ Reach(IF sess.unusable THEN "drop" ELSE "settle")
    /\ UNCHANGED <<conv, child, sess, minted, mishaps>> /\ BackendUnchanged

DropSession ==
    /\ turn.at = "drop"
    /\ CloseProcess
    /\ sess' = [sess EXCEPT !.on = FALSE]
    /\ Reach("judge")
    /\ UNCHANGED <<backend, minted, mishaps>> /\ BackendUnchanged

(* Mutant: only a turn that nobody cancelled counts as killed.              *)
KilledUnasked == child.hard /\ sess.delivered /\ ~turn.cancelled

Killed == child.hard /\ sess.delivered

(* Mutant: what nothing came back for is tried again.                       *)
RetriesSilent == ~turn.retried /\ ~turn.cancelled /\ ~sess.ever

Retries == ~turn.retried /\ ~turn.cancelled /\ ~sess.delivered

RetireIfKilled ==
    /\ turn.at = "judge"
    /\ backend' = IF Killed THEN ForgetHandle(backend) ELSE backend
    /\ turn' = IF Retries THEN [turn EXCEPT !.at = "start", !.retried = TRUE]
               ELSE [turn EXCEPT !.at = "finish"]
    /\ UNCHANGED <<conv, child, sess, minted, mishaps>> /\ BackendUnchanged

(* Mutant: the process of the second try is not judged.                     *)
FirstDeadResume == sess.resumed /\ ~sess.ever /\ ~turn.retried

(* A resumed process that never said anything: the vendor does not keep the *)
(* conversation.                                                            *)
DeadResume == sess.resumed /\ ~sess.ever

Finish ==
    /\ turn.at = "finish"
    /\ backend' = IF DeadResume THEN ForgetHandle(backend) ELSE backend
    /\ Reach("settle")
    /\ UNCHANGED <<conv, child, sess, minted, mishaps>> /\ BackendUnchanged

(* The plan decorator: what the session's file remembers.                   *)
Settle ==
    /\ turn.at = "settle"
    /\ saved' = CASE ProviderHandle # None /\ (turn.ok \/ Confirmed) -> ProviderHandle
                  [] ProviderHandle = None /\ backend.retired -> None
                  [] OTHER -> saved
    /\ told' = [told EXCEPT ![Latest] =
          [ended |-> TRUE, ok |-> turn.ok, answer |-> turn.answer, charge |-> turn.charge,
           delivered |-> backend.delivered, closed |-> backend.closed]]
    /\ dead' = [h \in Handles |-> IF h \in turn.refused /\ ~turn.ok THEN dead[h] + 1 ELSE dead[h]]
    /\ Reach("idle")
    /\ UNCHANGED <<conv, child, backend, sess, minted, ran, again, mishaps>>

(* Between two turns: a restart, or another model or effort; a new session  *)
(* (ForgetConversation).                                                    *)
Restart ==
    /\ turn.at = "idle" /\ Happens("rebuild")
    /\ CloseProcess
    /\ backend' = Backend(saved) /\ sess' = NoSession
    /\ UNCHANGED <<turn, saved, minted, told, ran, again, dead>>

NewSession ==
    /\ turn.at = "idle" /\ Happens("new")
    /\ CloseProcess
    /\ backend' = ForgetHandle(backend) /\ sess' = NoSession /\ saved' = None
    /\ UNCHANGED <<turn, minted, told, ran, again, dead>>

(* kolk dies in the middle of a turn; its vendor process ends one way or    *)
(* the other.  The next kolk resumes what the file says.                    *)
KolkDies ==
    /\ turn.at # "idle" /\ Happens("crash")
    /\ CloseProcess
    /\ backend' = Backend(saved) /\ sess' = NoSession
    /\ turn' = [Between EXCEPT !.prompt = Latest]
    /\ UNCHANGED <<saved, minted, told, ran, again, dead>>

-----------------------------------------------------------------------------
VendorInit ==
    /\ conv = [h \in Handles |-> [kept |-> FALSE, open |-> None]]
    /\ child = NoChild /\ backend = Backend(None) /\ sess = NoSession /\ turn = Between
    /\ saved = None /\ minted = 0
    /\ told = [p \in Prompts |-> [ended |-> FALSE, ok |-> FALSE, answer |-> None, charge |-> 0,
                                  delivered |-> FALSE, closed |-> FALSE]]
    /\ ran = [p \in Prompts |-> [times |-> 0, closed |-> FALSE]]
    /\ again = {} /\ dead = [h \in Handles |-> 0] /\ mishaps = 0

VendorNext ==
    \/ VendorRefuses \/ VendorWorks \/ VendorGarbles \/ VendorCloses \/ VendorTrails
    \/ \E h \in Handles : VendorTakes(h) \/ VendorForgets(h)
    \/ \E how \in {"exit", "kill", "term"} : VendorDies(how)
    \/ Begin \/ KeepSession \/ StartSession \/ NotStarted
    \/ Send \/ ReadFrame \/ ReadEnd \/ Cancel \/ DrainFrame \/ DrainExpires
    \/ NoteTurn \/ DropSession \/ RetireIfKilled \/ Finish \/ Settle
    \/ Restart \/ NewSession \/ KolkDies

VendorSpec == VendorInit /\ [][VendorNext]_vendorVars

-----------------------------------------------------------------------------
(* A turn is answered by its own frames and charged its own cost, whatever  *)
(* an interrupted turn before it left in the pipe or in the vendor's sums   *)
(* ("handing them to the next turn would answer the previous question").    *)
OwnResult ==
    \A p \in Prompts : told[p].ended =>
        /\ told[p].charge = IF told[p].closed THEN 1 ELSE 0
        /\ told[p].ok => told[p].closed /\ told[p].answer = p

(* A prompt is run once, and what the backend says of a turn is so for      *)
(* good: one that was never delivered is never run, and one that is said to *)
(* be closed was closed by the vendor.  Recovery decides by it.             *)
ProofsHold ==
    \A p \in Prompts :
        /\ ran[p].times <= 1
        /\ told[p].ended /\ ~told[p].delivered => ran[p].times = 0
        /\ told[p].closed => ran[p].closed

UnfinishedStays == again = {}
DeadOnce == \A h \in Handles : dead[h] <= 1

(* What is resumed can be.  No vendor goes on with a turn after it has      *)
(* ended for the user: a conversation that a kill left unfinished is        *)
(* resumed neither now nor by a later kolk.  And a conversation the vendor  *)
(* no longer keeps costs one turn ("so the next turn opens a fresh one and  *)
(* the stale handle never wedges the session").                             *)
ResumesWhole == UnfinishedStays /\ DeadOnce

(* What the backend remembers of a conversation, across retries, kills and  *)
(* kolk's own end, is what happened in it.                                  *)
ConversationsWhole == ProofsHold /\ ResumesWhole
=============================================================================
