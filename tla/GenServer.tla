----------------------------- MODULE GenServer -----------------------------
(***************************************************************************)
(* fastactor/otp/gen_server.py with the call machinery it shares with the  *)
(* state machine (Process._perform_call, Process._deliver_reply): one      *)
(* server, its callbacks, and the calls that clients, or the server's own  *)
(* callback, await.  The caller's `_pending_calls` and `_pending_results`  *)
(* are keyed by the call's ref, so a ref stands for one call.              *)
(***************************************************************************)
EXTENDS Naturals, Sequences

CONSTANTS Refs,         \* the calls, by the ref _call_ref() makes for each
          NoRef,        \* what is not a ref
          MailboxSize,  \* settings.mailbox_size
          MaxMessages,  \* bound: messages the mailbox accepts in a behaviour
          Others        \* what clients send besides calls

ASSUME GenServerAssumption ==
    /\ NoRef \notin Refs
    /\ MailboxSize \in Nat \ {0}
    /\ MaxMessages \in Nat
    /\ Others \subseteq {"cast", "stop"}

(* A value or an exception (`raises`) that was given to call `ref`. *)
Answers == [ref: Refs, raises: BOOLEAN]
Value(r) == [ref |-> r, raises |-> FALSE]
Error(r) == [ref |-> r, raises |-> TRUE]

Message   == [type: {"call", "cast", "stop", "timeout"}, ref: Refs \cup {NoRef}, seq: Nat]
NoMessage == [type |-> "timeout", ref |-> NoRef, seq |-> 0]

VARIABLES
    pc,           \* the await the server's task is parked at
    open,         \* the send end of the mailbox is open
    mailbox, current,
    continuing,   \* _pending_continue is set
    idleTimeout,  \* _idle_timeout is set
    killed,       \* _forced_exit_reason and _skip_terminate
    held,         \* the Call objects user code has in its hands
    calling,      \* the call the server's own callback awaits
    call,         \* where each call is; the ref of one that is "waiting", or
                  \* "expiring" (its cancellation is under way), is in _pending_calls
    result,       \* _pending_results, set together with the event of the call
    accepted,     \* history: messages the mailbox accepted
    offered,      \* history: answers that reached a call while it waited
    answer        \* history: what each call returned

server == <<pc, open, mailbox, current, continuing, idleTimeout, killed, held, calling>>
calls  == <<call, result, offered, answer>>
vars   == <<server, calls, accepted>>

Stopped == pc = "stopped"
Parked  == /\ mailbox = <<>>                \* waiting inside receive()
           /\ pc = "timed" \/ (pc = "idle" /\ ~continuing /\ ~idleTimeout)
InCallback == pc = "callback"

Init ==
    /\ pc = "idle"
    /\ open = TRUE
    /\ mailbox = <<>>
    /\ current = NoMessage
    /\ continuing \in BOOLEAN           \* init returned Continue
    /\ idleTimeout \in BOOLEAN          \* init returned (state, timeout)
    /\ ~(continuing /\ idleTimeout)
    /\ killed = FALSE
    /\ held = {}
    /\ calling = NoRef
    /\ call = [r \in Refs |-> "new"]
    /\ result = [r \in Refs |-> {}]
    /\ accepted = 0
    /\ offered = [r \in Refs |-> {}]
    /\ answer = [r \in Refs |-> {}]

-----------------------------------------------------------------------------
(* The mailbox. *)

(* Mutant: messages jump the queue. *)
EnqueueFirst(m) == <<m>> \o mailbox
Enqueue(m) == Append(mailbox, m)

Accept(type, ref) ==
    LET m == [type |-> type, ref |-> ref, seq |-> accepted + 1]
    IN  /\ open /\ accepted < MaxMessages
        /\ Parked \/ Len(mailbox) < MailboxSize
        /\ accepted' = accepted + 1
        /\ IF Parked THEN current' = m /\ UNCHANGED mailbox
                     ELSE mailbox' = Enqueue(m) /\ UNCHANGED current

Full == open /\ ~Parked /\ Len(mailbox) >= MailboxSize

-----------------------------------------------------------------------------
(* The awaiting side: call() and _perform_call. *)

(* Call.set_result -> _deliver_reply, on the tables of the caller. *)
Pending(r) == call[r] \in {"waiting", "expiring"}
(* Mutant: results are kept per caller, whose first waiting call takes them. *)
DeliverReplyToCaller(r, a) ==
    IF \E w \in Refs : call[w] = "waiting"
    THEN LET w == CHOOSE w \in Refs : call[w] = "waiting"
         IN  /\ result' = [result EXCEPT ![w] = {a}]
             /\ offered' = [offered EXCEPT ![w] = @ \cup {a}]
    ELSE UNCHANGED <<result, offered>>
DeliverReply(r, a) ==
    IF Pending(r)
    THEN /\ result' = [result EXCEPT ![r] = {a}]
         /\ offered' = [offered EXCEPT ![r] = @ \cup {a}]
    ELSE UNCHANGED <<result, offered>>

(* has_stopped(), or a closed mailbox: Failed("noproc"); a full one lets     *)
(* WouldBlock through.  Either way `finally` takes the ref out again.        *)
Refuse(r) ==
    /\ call[r] = "new"
    /\ ~open \/ Full
    /\ call' = [call EXCEPT ![r] = IF open THEN "full" ELSE "noproc"]
    /\ UNCHANGED <<server, accepted, result, offered, answer>>

ClientCalls(r) ==
    /\ call[r] = "new"
    /\ Accept("call", r)
    /\ pc' = IF Parked THEN "handling" ELSE pc
    /\ call' = [call EXCEPT ![r] = "waiting"]
    /\ UNCHANGED <<open, continuing, idleTimeout, killed, held, calling,
                   result, offered, answer>>

(* The event was set: the result is popped and returned or raised. *)
Return(r) ==
    /\ call[r] = "waiting" /\ result[r] # {}
    /\ call' = [call EXCEPT ![r] = "returned"]
    /\ answer' = [answer EXCEPT ![r] = result[r]]
    /\ result' = [result EXCEPT ![r] = {}]
    /\ pc' = IF calling = r THEN "callback" ELSE pc
    /\ calling' = IF calling = r THEN NoRef ELSE calling
    /\ UNCHANGED <<open, mailbox, current, continuing, idleTimeout, killed, held,
                   offered, accepted>>

(* The deadline of fail_after passes while the event is not set: the caller  *)
(* is cancelled, but its ref is pending until it runs, and a reply may still *)
(* come and set the event.  (One whose event is set is not cancelled.)       *)
Expire(r) ==
    /\ call[r] = "waiting" /\ result[r] = {}
    /\ call' = [call EXCEPT ![r] = "expiring"]
    /\ UNCHANGED <<server, result, offered, answer, accepted>>

(* The caller runs: TimeoutError, and the `finally` takes out what came      *)
(* meanwhile.  In a callback of the server it is raised like any other       *)
(* exception.                                                                *)
Expired(r) ==
    /\ call[r] = "expiring"
    /\ call' = [call EXCEPT ![r] = "timeout"]
    /\ pc' = IF calling = r THEN "callback" ELSE pc
    /\ calling' = IF calling = r THEN NoRef ELSE calling
    /\ UNCHANGED <<open, mailbox, current, continuing, idleTimeout, killed, held,
                   offered, answer, accepted>>
(* Mutant: call(timeout=None). *)
TimeOutNever(r) == FALSE
(* Mutant: the `finally` takes out the ref only. *)
TimeOutLeaving(r) == Expired(r) /\ UNCHANGED result
TimeOut(r) == Expired(r) /\ result' = [result EXCEPT ![r] = {}]

-----------------------------------------------------------------------------
(* The server's loop. *)

(* A pending continuation goes before any message. *)
RunContinue ==
    /\ pc = "idle" /\ continuing
    /\ continuing' = FALSE
    /\ current' = NoMessage
    /\ pc' = "callback"                                     \* handle_continue
    /\ UNCHANGED <<open, mailbox, idleTimeout, killed, held, calling, calls, accepted>>

(* _receive_next: an idle timeout is used up by the next receive. *)
MayReceive == ~continuing

ArmIdle ==
    /\ pc = "idle" /\ MayReceive /\ idleTimeout
    /\ idleTimeout' = FALSE
    /\ pc' = "timed"
    /\ UNCHANGED <<open, mailbox, current, continuing, killed, held, calling, calls, accepted>>

Receive ==
    /\ pc = "timed" \/ (pc = "idle" /\ MayReceive /\ ~idleTimeout)
    /\ mailbox # <<>>
    /\ current' = Head(mailbox)
    /\ mailbox' = Tail(mailbox)
    /\ pc' = "handling"
    /\ UNCHANGED <<open, continuing, idleTimeout, killed, held, calling, calls, accepted>>

(* move_on_after ran out before a message came: Info("timeout"). *)
IdleFires ==
    /\ pc = "timed" /\ mailbox = <<>>
    /\ current' = NoMessage
    /\ pc' = "callback"                                     \* handle_info
    /\ UNCHANGED <<open, mailbox, continuing, idleTimeout, killed, held, calling, calls,
                   accepted>>

LeaveLoop ==
    /\ pc' = "closing"
    /\ open' = FALSE
    /\ mailbox' = <<>>
    /\ current' = NoMessage
    /\ UNCHANGED <<idleTimeout, killed, calling>>

EndOfStream ==
    /\ Parked /\ ~open
    /\ LeaveLoop
    /\ UNCHANGED <<continuing, held, calls, accepted>>

HandleStop ==
    /\ pc = "handling" /\ current.type = "stop"
    /\ LeaveLoop
    /\ UNCHANGED <<continuing, held, calls, accepted>>

HandleCast ==
    /\ pc = "handling" /\ current.type = "cast"
    /\ pc' = "callback"                                     \* handle_cast
    /\ UNCHANGED <<open, mailbox, current, continuing, idleTimeout, killed, held, calling,
                   calls, accepted>>

HandleCall ==
    /\ pc = "handling" /\ current.type = "call"
    /\ pc' = "callback"                                     \* handle_call
    /\ held' = held \cup {current.ref}
    /\ UNCHANGED <<open, mailbox, current, continuing, idleTimeout, killed, calling,
                   calls, accepted>>

-----------------------------------------------------------------------------
(* How a callback ends: _do_handle_call, _do_handle_cast, handle_continue.   *)

OfCall == current.type = "call"

(* The loop goes on; the callback returned None, or Continue (but a bare     *)
(* Continue from handle_call is a reply).                                    *)
CallbackReturns ==
    /\ InCallback
    /\ pc' = "idle"
    /\ current' = NoMessage
    /\ continuing' \in IF OfCall THEN {FALSE} ELSE BOOLEAN
    /\ UNCHANGED <<open, mailbox, idleTimeout, killed, held, calling, calls, accepted>>

(* A value, (value, Continue) or (value, timeout). *)
CallbackReplies ==
    /\ InCallback /\ OfCall
    /\ DeliverReply(current.ref, Value(current.ref))
    /\ pc' = "idle"
    /\ current' = NoMessage
    /\ \/ continuing' = TRUE /\ UNCHANGED idleTimeout
       \/ continuing' = FALSE /\ idleTimeout' = TRUE
       \/ continuing' = FALSE /\ UNCHANGED idleTimeout
    /\ UNCHANGED <<open, mailbox, killed, held, calling, call, answer, accepted>>

(* (value, Stop): replied, then stopped.  A bare Stop answers with Shutdown. *)
CallbackRepliesAndStops ==
    /\ InCallback /\ OfCall
    /\ \E a \in {Value(current.ref), Error(current.ref)} : DeliverReply(current.ref, a)
    /\ LeaveLoop
    /\ UNCHANGED <<continuing, held, call, answer, accepted>>

(* An exception reaches the caller, and the server crashes. *)
CallbackRaises ==
    /\ InCallback
    /\ IF OfCall THEN DeliverReply(current.ref, Error(current.ref)) ELSE UNCHANGED <<result, offered>>
    /\ LeaveLoop
    /\ UNCHANGED <<continuing, held, call, answer, accepted>>

(* handle_continue returned Stop, or a callback raised Shutdown itself:      *)
(* nothing is answered.                                                      *)
CallbackShutsDown ==
    /\ InCallback
    /\ LeaveLoop
    /\ UNCHANGED <<continuing, held, calls, accepted>>

(* The callback calls its own server, and waits for itself. *)
CallbackCallsSelf(r) ==
    /\ InCallback /\ call[r] = "new"
    /\ Accept("call", r)
    /\ call' = [call EXCEPT ![r] = "waiting"]
    /\ calling' = r
    /\ pc' = "calling"
    /\ UNCHANGED <<open, continuing, idleTimeout, killed, held, result, offered, answer>>

(* reply(): user code answers a call it holds, from whatever task. *)
Reply(r) ==
    /\ r \in held
    /\ DeliverReply(r, Value(r))
    /\ held' = held \ {r}
    /\ UNCHANGED <<pc, open, mailbox, current, continuing, idleTimeout, killed, calling,
                   call, answer, accepted>>

-----------------------------------------------------------------------------
Send(type) ==
    /\ Accept(type, NoRef)
    /\ pc' = IF Parked THEN "handling" ELSE pc
    /\ UNCHANGED <<open, continuing, idleTimeout, killed, held, calling, calls>>

Kill ==
    /\ ~Stopped /\ ~killed
    /\ killed' = TRUE
    /\ open' = FALSE
    /\ UNCHANGED <<pc, mailbox, current, continuing, idleTimeout, held, calling, calls, accepted>>

(* terminate() and _system_teardown end without a word to pending callers. *)
Finish ==
    /\ pc = "closing"
    /\ pc' = "stopped"
    /\ UNCHANGED <<open, mailbox, current, continuing, idleTimeout, killed, held, calling,
                   calls, accepted>>

Loop ==
    \/ RunContinue \/ ArmIdle \/ Receive \/ IdleFires \/ EndOfStream
    \/ HandleStop \/ HandleCast \/ HandleCall
    \/ CallbackReturns \/ CallbackReplies \/ CallbackRepliesAndStops
    \/ CallbackRaises \/ CallbackShutsDown \/ Finish

Caller(r) == Return(r) \/ Expire(r) \/ TimeOut(r)

Done == Stopped /\ (\A r \in Refs : ~Pending(r)) /\ UNCHANGED vars

Next == \/ Loop
        \/ \E r \in Refs : \/ Caller(r) \/ Refuse(r) \/ ClientCalls(r)
                           \/ CallbackCallsSelf(r) \/ Reply(r)
        \/ \E type \in Others : Send(type)
        \/ Kill
        \/ Done

(* The event loop runs every ready task, and the deadlines of calls pass. *)
Spec == Init /\ [][Next]_vars /\ WF_vars(Loop) /\ \A r \in Refs : WF_vars(Caller(r))

-----------------------------------------------------------------------------
(* Every variable has the type of the attribute it stands for, and the       *)
(* mailbox never holds more than its size.                                   *)
TypeOK ==
    /\ pc \in {"idle", "timed", "handling", "callback", "calling", "closing", "stopped"}
    /\ open \in BOOLEAN /\ killed \in BOOLEAN
    /\ continuing \in BOOLEAN /\ idleTimeout \in BOOLEAN
    /\ mailbox \in Seq(Message) /\ Len(mailbox) <= MailboxSize
    /\ current \in Message
    /\ held \subseteq Refs
    /\ calling \in Refs \cup {NoRef}
    /\ call \in [Refs -> {"new", "waiting", "expiring", "returned", "timeout", "noproc",
                         "full"}]
    /\ result \in [Refs -> SUBSET Answers]
    /\ accepted \in 0..MaxMessages
    /\ offered \in [Refs -> SUBSET Answers]
    /\ answer \in [Refs -> SUBSET Answers]

(* A reply reaches the call it was given for, also when one caller process   *)
(* has several calls under way and replies come out of order.                *)
AnswersTheirOwnCall ==
    \A r \in Refs : answer[r] \subseteq {Value(r), Error(r)}

(* A late reply leaks nothing, be it that the caller has gone or that it is  *)
(* being cancelled: _pending_results only has refs that are in               *)
(* _pending_calls (the comment of _deliver_reply).                           *)
NoResultLeak == \A r \in Refs : result[r] # {} => Pending(r)

(* SPEC.md 3.1: the server takes the messages in the order they were         *)
(* accepted, also across idle timeouts and continuations.                    *)
InOrder ==
    LET queue == IF current.seq = 0 THEN mailbox ELSE <<current>> \o mailbox
    IN  \A i, j \in DOMAIN queue : i < j => queue[i].seq < queue[j].seq

(* call() keeps the contract of its awaiting side, and every call ends: also *)
(* one whose server has died, and one a server makes to itself.              *)
Contract == INSTANCE CallContract
    WITH Calls <- Refs,
         status <- [r \in Refs |->
             CASE call[r] \in {"waiting", "expiring"} -> "open"
               [] call[r] = "returned"           -> "answered"
               [] call[r] = "new"                -> "new"
               [] OTHER                          -> "failed"]
KeepsContract == Contract!Spec

(* SPEC.md 4.3: a caller learns of the server's death from the death, not    *)
(* from its timeout.                                                         *)
DeathIsNotATimeout ==
    [][\A r \in Refs : call[r] = "waiting" /\ call'[r] = "expiring" => ~Stopped]_vars

=============================================================================
