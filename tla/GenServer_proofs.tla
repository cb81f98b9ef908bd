--------------------------- MODULE GenServer_proofs ---------------------------
(***************************************************************************)
(* Proofs about GenServer, for any calls, mailbox size and messages: its   *)
(* types, the order of its mailbox, the way replies find their calls, and  *)
(* that it implements the safety part of CallContract.                     *)
(***************************************************************************)
EXTENDS GenServer, TLAPS, SequenceTheorems

(* A message for handle_call names the call that it is. *)
CallsAreNamed ==
    /\ current.type = "call" => current.ref \in Refs
    /\ \A i \in DOMAIN mailbox : mailbox[i].type = "call" => mailbox[i].ref \in Refs

(* The mailbox is ordered, behind the message in hand and up to the last     *)
(* that was accepted.                                                        *)
Numbered ==
    /\ current.seq <= accepted
    /\ \A i \in DOMAIN mailbox : current.seq < mailbox[i].seq /\ mailbox[i].seq <= accepted
    /\ \A i, j \in DOMAIN mailbox : i < j => mailbox[i].seq < mailbox[j].seq

(* What waits for its caller, or was returned, is one answer that was given  *)
(* to that very call while it waited.                                        *)
Offered ==
    \A r \in Refs :
      /\ offered[r] \subseteq {Value(r), Error(r)}
      /\ result[r] # {} => \E a \in offered[r] : result[r] = {a}
      /\ answer[r] \subseteq offered[r]

IInv == TypeOK /\ CallsAreNamed /\ Numbered /\ Offered /\ NoResultLeak

-----------------------------------------------------------------------------
(* What the operators of the module do. *)

(* The types of the mailbox with the message in hand, and of the answers.    *)
MailTypes ==
    /\ mailbox \in Seq(Message) /\ Len(mailbox) <= MailboxSize
    /\ current \in Message /\ accepted \in 0..MaxMessages
AnswerTypes ==
    /\ result \in [Refs -> SUBSET Answers]
    /\ offered \in [Refs -> SUBSET Answers]
    /\ answer \in [Refs -> SUBSET Answers]
MailInv   == MailTypes /\ CallsAreNamed /\ Numbered
AnswerInv == AnswerTypes /\ Offered /\ NoResultLeak

(* The message in no hand. *)
LEMMA NoMessageType ==
  NoMessage \in Message /\ NoMessage.type = "timeout" /\ NoMessage.seq = 0
  BY DEF NoMessage, Message

(* The numbers of the messages are natural numbers. *)
LEMMA MailSeqs ==
  ASSUME MailTypes
  PROVE  /\ current.seq \in Nat /\ accepted \in Nat
         /\ \A i \in DOMAIN mailbox : mailbox[i] \in Message /\ mailbox[i].seq \in Nat
<1>1. \A m \in Message : m.seq \in Nat
  BY DEF Message
<1>2. mailbox \in Seq(Message)
  BY DEF MailTypes
<1>3. \A i \in DOMAIN mailbox : mailbox[i] \in Message
  BY <1>2, ElementOfSeq, LenProperties
<1> QED
  BY <1>1, <1>3, GenServerAssumption DEF MailTypes

(* An accepted message is the last of the order, in hand or in the mailbox.  *)
LEMMA AcceptKeepsOrder ==
  ASSUME MailInv, NEW type \in {"call", "cast", "stop"}, NEW ref \in Refs \cup {NoRef},
         type = "call" => ref \in Refs,
         Accept(type, ref)
  PROVE  MailInv'
<1> DEFINE m == [type |-> type, ref |-> ref, seq |-> accepted + 1]
<1>1. /\ accepted < MaxMessages /\ accepted' = accepted + 1
      /\ Parked \/ Len(mailbox) < MailboxSize
      /\ \/ Parked /\ current' = m /\ UNCHANGED mailbox
         \/ ~Parked /\ mailbox' = Append(mailbox, m) /\ UNCHANGED current
  BY DEF Accept, Enqueue
<1>2. accepted \in Nat /\ MaxMessages \in Nat /\ accepted + 1 \in 0..MaxMessages
  BY <1>1, GenServerAssumption DEF MailInv, MailTypes
<1>3. /\ m \in Message /\ m.seq = accepted + 1 /\ (m.type = "call" => m.ref \in Refs)
  BY <1>2 DEF Message
<1> HIDE DEF m
<1>4. CASE Parked /\ current' = m /\ UNCHANGED mailbox
  <2>1. mailbox = <<>>
    BY <1>4 DEF Parked
  <2> QED
    BY <1>1, <1>2, <1>3, <1>4, <2>1 DEF MailInv, MailTypes, CallsAreNamed, Numbered
<1>5. CASE ~Parked /\ mailbox' = Append(mailbox, m) /\ UNCHANGED current
  <2>1. /\ mailbox \in Seq(Message) /\ Len(mailbox) \in Nat /\ Len(mailbox) < MailboxSize
        /\ current.seq \in Nat /\ \A i \in DOMAIN mailbox : mailbox[i].seq \in Nat
    BY <1>1, <1>5, MailSeqs, GenServerAssumption DEF MailInv, MailTypes
  <2>2. /\ Append(mailbox, m) \in Seq(Message)
        /\ Len(Append(mailbox, m)) = Len(mailbox) + 1
        /\ \A i \in DOMAIN Append(mailbox, m) :
             \/ i \in DOMAIN mailbox /\ Append(mailbox, m)[i] = mailbox[i]
             \/ i = Len(mailbox) + 1 /\ Append(mailbox, m)[i] = m
    BY <1>3, <2>1, AppendProperties
  <2>3. MailTypes'
    BY <1>1, <1>2, <1>5, <2>1, <2>2, GenServerAssumption DEF MailInv, MailTypes
  <2>4. CallsAreNamed'
    BY <1>3, <1>5, <2>2 DEF MailInv, CallsAreNamed
  <2>5. Numbered'
    <3>1. current.seq <= accepted'
      BY <1>1, <1>2, <2>1 DEF MailInv, Numbered
    <3>2. ASSUME NEW i \in DOMAIN mailbox'
          PROVE  current.seq < mailbox'[i].seq /\ mailbox'[i].seq <= accepted'
      BY <1>1, <1>2, <1>3, <1>5, <2>1, <2>2 DEF MailInv, Numbered
    <3>3. ASSUME NEW i \in DOMAIN mailbox', NEW j \in DOMAIN mailbox', i < j
          PROVE  mailbox'[i].seq < mailbox'[j].seq
      <4>1. i \in DOMAIN mailbox /\ mailbox'[i] = mailbox[i]
        BY <1>5, <2>1, <2>2, <3>3
      <4>2. CASE j \in DOMAIN mailbox /\ mailbox'[j] = mailbox[j]
        BY <3>3, <4>1, <4>2 DEF MailInv, Numbered
      <4>3. CASE mailbox'[j] = m
        BY <1>2, <1>3, <2>1, <4>1, <4>3 DEF MailInv, Numbered
      <4> QED
        BY <1>5, <2>2, <4>2, <4>3
    <3> QED
      BY <1>5, <3>1, <3>2, <3>3 DEF Numbered
  <2> QED
    BY <2>3, <2>4, <2>5 DEF MailInv
<1> QED
  BY <1>1, <1>4, <1>5

(* Taking the head of the mailbox keeps the order. *)
LEMMA ReceiveKeepsOrder ==
  ASSUME MailInv, Receive PROVE MailInv'
<1>1. mailbox # <<>> /\ current' = Head(mailbox) /\ mailbox' = Tail(mailbox) /\ accepted' = accepted
  BY DEF Receive
<1>2. /\ mailbox \in Seq(Message) /\ Len(mailbox) \in Nat \ {0} /\ Len(mailbox) <= MailboxSize
      /\ 1 \in DOMAIN mailbox
  BY <1>1, EmptySeq DEF MailInv, MailTypes
<1>3. /\ Head(mailbox) = mailbox[1]
      /\ Tail(mailbox) \in Seq(Message) /\ Len(Tail(mailbox)) = Len(mailbox) - 1
      /\ \A i \in DOMAIN Tail(mailbox) :
           /\ i \in Nat \ {0} /\ i + 1 \in DOMAIN mailbox
           /\ Tail(mailbox)[i] = mailbox[i + 1]
  BY <1>1, <1>2, HeadTailProperties
<1>4. MailTypes'
  BY <1>1, <1>2, <1>3, GenServerAssumption DEF MailInv, MailTypes
<1>5. CallsAreNamed'
  BY <1>1, <1>2, <1>3 DEF MailInv, CallsAreNamed
<1>6. Numbered'
  <2>1. ASSUME NEW i \in DOMAIN mailbox'
        PROVE  mailbox[1].seq < mailbox[i + 1].seq /\ mailbox[i + 1].seq <= accepted
    <3>1. i + 1 \in DOMAIN mailbox /\ 1 < i + 1
      BY <1>1, <1>3
    <3> QED
      BY <1>2, <3>1 DEF MailInv, Numbered
  <2>2. ASSUME NEW i \in DOMAIN mailbox', NEW j \in DOMAIN mailbox', i < j
        PROVE  mailbox[i + 1].seq < mailbox[j + 1].seq
    <3>1. i + 1 \in DOMAIN mailbox /\ j + 1 \in DOMAIN mailbox /\ i + 1 < j + 1
      BY <1>1, <1>3, <2>2
    <3> QED
      BY <3>1 DEF MailInv, Numbered
  <2>3. mailbox[1].seq <= accepted
    BY <1>2 DEF MailInv, Numbered
  <2> QED
    BY <1>1, <1>3, <2>1, <2>2, <2>3 DEF Numbered
<1> QED
  BY <1>4, <1>5, <1>6 DEF MailInv

(* Nothing is in hand, the mailbox is as it was or closed. *)
LEMMA ClearedKeepsOrder ==
  ASSUME MailInv, current' \in {current, NoMessage}, mailbox' \in {mailbox, <<>>}, UNCHANGED accepted
  PROVE  MailInv'
<1>1. NoMessage \in Message /\ NoMessage.type = "timeout" /\ NoMessage.seq = 0
  BY NoMessageType
<1>2. /\ current.seq \in Nat /\ accepted \in Nat
      /\ \A i \in DOMAIN mailbox : mailbox[i].seq \in Nat /\ current.seq < mailbox[i].seq
  BY MailSeqs DEF MailInv, Numbered
<1>3. /\ DOMAIN mailbox' \subseteq DOMAIN mailbox
      /\ \A i \in DOMAIN mailbox' : mailbox'[i] = mailbox[i]
      /\ mailbox' \in Seq(Message) /\ Len(mailbox') <= MailboxSize
  <2>1. CASE mailbox' = mailbox
    BY <2>1 DEF MailInv, MailTypes
  <2>2. CASE mailbox' = <<>>
    <3>1. mailbox' \in Seq(Message) /\ Len(mailbox') = 0 /\ DOMAIN mailbox' = {}
      BY <2>2, EmptySeq
    <3> QED
      BY <3>1, GenServerAssumption
  <2> QED
    BY <2>1, <2>2
<1>4. MailTypes' /\ CallsAreNamed'
  BY <1>1, <1>3 DEF MailInv, MailTypes, CallsAreNamed
<1>5. Numbered'
  <2>1. current'.seq <= current.seq /\ current'.seq \in Nat
    BY <1>1, <1>2
  <2> QED
    BY <1>2, <1>3, <2>1 DEF MailInv, Numbered
<1> QED
  BY <1>4, <1>5 DEF MailInv

-----------------------------------------------------------------------------
(* The calls, and what their contract sees of them. *)

Places == {"new", "waiting", "expiring", "returned", "timeout", "noproc", "full"}
CallTypes == call \in [Refs -> Places]

(* The status of a call in CallContract. *)
StatusOf(c) == CASE c \in {"waiting", "expiring"} -> "open"
                 [] c = "returned" -> "answered"
                 [] c = "new"      -> "new"
                 [] OTHER          -> "failed"
Status == [r \in Refs |-> StatusOf(call[r])]

(* A step that leaves calls, answers and offers alone is a stutter.          *)
LEMMA ContractStutters ==
  ASSUME UNCHANGED <<call, offered, answer>>
  PROVE  [Contract!Next]_(Contract!vars)
  BY DEF Contract!vars

(* A call moves on alone: the status of the others is as it was. *)
LEMMA StatusMoves ==
  ASSUME CallTypes, NEW r \in Refs,
         NEW c \in Places,
         call' = [call EXCEPT ![r] = c]
  PROVE  Status' = [Status EXCEPT ![r] = StatusOf(c)]
<1>1. \A q \in Refs : call'[q] = IF q = r THEN c ELSE call[q]
  BY DEF CallTypes
<1>2. Status' = [q \in Refs |-> StatusOf(call'[q])]
  BY DEF Status, StatusOf
<1>3. Status' = [q \in Refs |-> IF q = r THEN StatusOf(c) ELSE Status[q]]
  <2>1. \A q \in Refs : StatusOf(call'[q]) = IF q = r THEN StatusOf(c) ELSE Status[q]
    BY <1>1 DEF Status, StatusOf
  <2> QED
    BY <1>2, <2>1, Zenon
<1>4. Status = [q \in Refs |-> Status[q]]
  BY DEF Status
<1> QED
  BY <1>3, <1>4

(* A step of the contract, over Status. *)
LEMMA ContractSteps ==
  ASSUME NEW r \in Refs,
         \/ /\ Status[r] = "new"
            /\ Status' \in {[Status EXCEPT ![r] = "open"], [Status EXCEPT ![r] = "failed"]}
            /\ UNCHANGED <<offered, answer>>
         \/ /\ Status[r] = "open" /\ Status' = [Status EXCEPT ![r] = "failed"]
            /\ UNCHANGED <<offered, answer>>
         \/ /\ Status[r] = "open" /\ Status' = Status /\ answer' = answer
            /\ \E a \in Answers : offered' = [offered EXCEPT ![r] = @ \cup {a}]
         \/ /\ Status[r] = "open" /\ Status' = [Status EXCEPT ![r] = "answered"]
            /\ offered' = offered
            /\ \E a \in Answers : a \in offered[r] /\ answer' = [answer EXCEPT ![r] = {a}]
  PROVE  Contract!Next
  BY DEF Contract!Next, Contract!Begin, Contract!Refuse, Contract!Fail, Contract!Offer,
         Contract!Return, Status, StatusOf

(* The two answers there are for a call. *)
LEMMA AnswersOfCall ==
  ASSUME NEW r \in Refs
  PROVE  Value(r) \in Answers /\ Error(r) \in Answers
  BY DEF Value, Error, Answers

(* A reply reaches the call it is for while that waits, and is dropped after. *)
LEMMA DeliverKeepsAnswers ==
  ASSUME CallTypes, AnswerInv, NEW r \in Refs, NEW a \in {Value(r), Error(r)},
         DeliverReply(r, a), UNCHANGED <<call, answer>>
  PROVE  AnswerInv' /\ [Contract!Next]_(Contract!vars)
<1>1. CASE Pending(r)
  <2>1. /\ result' = [result EXCEPT ![r] = {a}]
        /\ offered' = [offered EXCEPT ![r] = offered[r] \cup {a}]
    BY <1>1 DEF DeliverReply
  <2>2. a \in Answers
    BY AnswersOfCall
  <2>3. AnswerTypes'
    BY <2>1, <2>2 DEF AnswerInv, AnswerTypes
  <2>4. /\ offered'[r] = offered[r] \cup {a} /\ result'[r] = {a}
        /\ \A q \in Refs \ {r} : offered'[q] = offered[q] /\ result'[q] = result[q]
    BY <2>1 DEF AnswerInv, AnswerTypes
  <2>5. Offered'
    BY <2>4 DEF AnswerInv, Offered, Value, Error
  <2>6. NoResultLeak'
    BY <1>1, <2>4 DEF AnswerInv, NoResultLeak, Pending
  <2>7. Status[r] = "open" /\ Status' = Status
    BY <1>1 DEF Status, StatusOf, Pending
  <2>8. Contract!Next
    BY <2>1, <2>2, <2>7, ContractSteps
  <2> QED
    BY <2>3, <2>5, <2>6, <2>8 DEF AnswerInv
<1>2. CASE ~Pending(r)
  <2>1. UNCHANGED <<result, offered>>
    BY <1>2 DEF DeliverReply
  <2>2. AnswerInv'
    BY <2>1 DEF AnswerInv, AnswerTypes, Offered, NoResultLeak, Pending, Value, Error
  <2> QED
    BY <2>1, <2>2, ContractStutters
<1> QED
  BY <1>1, <1>2
-----------------------------------------------------------------------------
(* Every step, part by part of the invariant. *)

(* The types that MailInv and AnswerInv leave. *)
ServerTypes ==
    /\ pc \in {"idle", "timed", "handling", "callback", "calling", "closing", "stopped"}
    /\ open \in BOOLEAN /\ killed \in BOOLEAN
    /\ continuing \in BOOLEAN /\ idleTimeout \in BOOLEAN
    /\ held \subseteq Refs
    /\ calling \in Refs \cup {NoRef}
    /\ CallTypes

(* The parts are the invariant. *)
LEMMA Parts == IInv <=> ServerTypes /\ MailInv /\ AnswerInv
  BY DEF IInv, TypeOK, ServerTypes, CallTypes, Places, MailInv, MailTypes, AnswerInv, AnswerTypes

(* The mailbox stays in order: it grows at its end, shrinks at its head or   *)
(* is closed.                                                                *)
LEMMA StepsKeepOrder ==
  ASSUME IInv, [Next]_vars PROVE MailInv'
<1>1. MailInv
  BY Parts
<1>2. CASE UNCHANGED <<mailbox, current, accepted>>
  BY <1>1, <1>2, ClearedKeepsOrder
<1>3. CASE Receive
  BY <1>1, <1>3, ReceiveKeepsOrder
<1>4. ASSUME NEW r \in Refs, Accept("call", r) PROVE MailInv'
  BY <1>1, <1>4, AcceptKeepsOrder
<1>5. ASSUME NEW type \in Others, Accept(type, NoRef) PROVE MailInv'
  BY <1>1, <1>5, AcceptKeepsOrder, GenServerAssumption
<1>6. CASE current' = NoMessage /\ mailbox' \in {mailbox, <<>>} /\ accepted' = accepted
  BY <1>1, <1>6, ClearedKeepsOrder
<1>7. CASE Loop
  <2>1. CASE RunContinue \/ IdleFires \/ CallbackReturns \/ CallbackReplies
    BY <1>6, <2>1 DEF RunContinue, IdleFires, CallbackReturns, CallbackReplies
  <2>2. CASE \/ EndOfStream \/ HandleStop \/ CallbackRepliesAndStops \/ CallbackRaises
             \/ CallbackShutsDown
    BY <1>6, <2>2 DEF EndOfStream, HandleStop, CallbackRepliesAndStops, CallbackRaises,
         CallbackShutsDown, LeaveLoop
  <2>3. CASE ArmIdle \/ HandleCast \/ HandleCall \/ Finish
    BY <1>2, <2>3 DEF ArmIdle, HandleCast, HandleCall, Finish
  <2> QED
    BY <1>3, <1>7, <2>1, <2>2, <2>3 DEF Loop
<1>8. ASSUME NEW r \in Refs,
             Caller(r) \/ Refuse(r) \/ ClientCalls(r) \/ CallbackCallsSelf(r) \/ Reply(r)
      PROVE  MailInv'
  <2>1. CASE Return(r) \/ Expire(r) \/ TimeOut(r) \/ Refuse(r) \/ Reply(r)
    BY <1>2, <2>1 DEF Return, Expire, TimeOut, Expired, Refuse, Reply, server
  <2>2. CASE ClientCalls(r) \/ CallbackCallsSelf(r)
    BY <1>4, <2>2 DEF ClientCalls, CallbackCallsSelf
  <2> QED
    BY <1>8, <2>1, <2>2 DEF Caller
<1>9. CASE Kill \/ Done \/ UNCHANGED vars
  BY <1>2, <1>9 DEF Kill, Done, vars, server
<1> QED
  BY <1>5, <1>7, <1>8, <1>9 DEF Next, Send

(* The server's own state keeps its types. *)
LEMMA StepsKeepTypes ==
  ASSUME IInv, [Next]_vars PROVE ServerTypes'
<1>1. ServerTypes
  BY Parts
<1>2. CASE Loop
  <2>1. CASE RunContinue \/ ArmIdle \/ Receive \/ IdleFires \/ HandleCast \/ Finish
    BY <1>1, <2>1 DEF ServerTypes, CallTypes, RunContinue, ArmIdle, Receive, IdleFires,
         HandleCast, Finish, calls
  <2>2. CASE HandleCall
    <3>1. current.ref \in Refs
      BY <2>2 DEF HandleCall, IInv, CallsAreNamed
    <3> QED
      BY <1>1, <2>2, <3>1 DEF ServerTypes, CallTypes, HandleCall, calls
  <2>3. CASE CallbackReturns \/ CallbackReplies
    BY <1>1, <2>3 DEF ServerTypes, CallTypes, CallbackReturns, CallbackReplies, calls
  <2>4. CASE \/ EndOfStream \/ HandleStop \/ CallbackRepliesAndStops \/ CallbackRaises
             \/ CallbackShutsDown
    BY <1>1, <2>4 DEF ServerTypes, CallTypes, EndOfStream, HandleStop,
         CallbackRepliesAndStops, CallbackRaises, CallbackShutsDown, LeaveLoop, calls
  <2> QED
    BY <1>2, <2>1, <2>2, <2>3, <2>4 DEF Loop
<1>3. ASSUME NEW r \in Refs,
             Caller(r) \/ Refuse(r) \/ ClientCalls(r) \/ CallbackCallsSelf(r) \/ Reply(r)
      PROVE  ServerTypes'
  <2>1. CASE Return(r) \/ TimeOut(r)
    BY <1>1, <2>1 DEF ServerTypes, CallTypes, Places, Return, TimeOut, Expired
  <2>2. CASE Refuse(r) \/ Expire(r)
    BY <1>1, <2>2 DEF ServerTypes, CallTypes, Places, Refuse, Expire, server
  <2>3. CASE ClientCalls(r) \/ CallbackCallsSelf(r)
    BY <1>1, <2>3 DEF ServerTypes, CallTypes, Places, ClientCalls, CallbackCallsSelf
  <2>4. CASE Reply(r)
    BY <1>1, <2>4 DEF ServerTypes, CallTypes, Reply
  <2> QED
    BY <1>3, <2>1, <2>2, <2>3, <2>4 DEF Caller
<1>4. ASSUME NEW type \in Others, Send(type) PROVE ServerTypes'
  BY <1>1, <1>4 DEF ServerTypes, CallTypes, Send, calls
<1>5. CASE Kill \/ Done \/ UNCHANGED vars
  BY <1>1, <1>5 DEF ServerTypes, CallTypes, Kill, Done, vars, server, calls
<1> QED
  BY <1>2, <1>3, <1>4, <1>5 DEF Next
(* Every step keeps the books of the replies, and is a step of the contract  *)
(* or changes nothing that the contract sees.                                *)
LEMMA StepsKeepAnswers ==
  ASSUME IInv, [Next]_vars
  PROVE  AnswerInv' /\ [Contract!Next]_(Contract!vars)
<1>1. CallTypes /\ AnswerInv
  BY Parts DEF ServerTypes
<1>2. CASE UNCHANGED calls
  <2>1. AnswerInv'
    BY <1>1, <1>2 DEF calls, AnswerInv, AnswerTypes, Offered, NoResultLeak, Pending, Value, Error
  <2> QED
    BY <1>2, <2>1, ContractStutters DEF calls
<1>3. ASSUME NEW r \in Refs, NEW a \in {Value(r), Error(r)},
             DeliverReply(r, a), UNCHANGED <<call, answer>>
      PROVE  AnswerInv' /\ [Contract!Next]_(Contract!vars)
  BY <1>1, <1>3, DeliverKeepsAnswers
<1>4. InCallback /\ OfCall => current.ref \in Refs
  BY DEF OfCall, IInv, CallsAreNamed
<1>5. CASE Loop
  <2>1. CASE \/ RunContinue \/ ArmIdle \/ Receive \/ IdleFires \/ EndOfStream
             \/ HandleStop \/ HandleCast \/ HandleCall
             \/ CallbackReturns \/ CallbackShutsDown \/ Finish
    BY <1>2, <2>1 DEF RunContinue, ArmIdle, Receive, IdleFires, EndOfStream, HandleStop,
         HandleCast, HandleCall, CallbackReturns, CallbackShutsDown, Finish
  <2>2. CASE CallbackReplies
    BY <1>3, <1>4, <2>2 DEF CallbackReplies
  <2>3. CASE CallbackRepliesAndStops
    BY <1>3, <1>4, <2>3 DEF CallbackRepliesAndStops
  <2>4. CASE CallbackRaises
    <3>1. CASE OfCall
      BY <1>3, <1>4, <2>4, <3>1 DEF CallbackRaises
    <3>2. CASE ~OfCall
      BY <1>2, <2>4, <3>2 DEF CallbackRaises, calls
    <3> QED
      BY <3>1, <3>2
  <2> QED
    BY <1>5, <2>1, <2>2, <2>3, <2>4 DEF Loop
<1>6. ASSUME NEW r \in Refs,
             Caller(r) \/ Refuse(r) \/ ClientCalls(r) \/ CallbackCallsSelf(r) \/ Reply(r)
      PROVE  AnswerInv' /\ [Contract!Next]_(Contract!vars)
  <2>1. CASE Reply(r)
    BY <1>3, <2>1 DEF Reply
  <2>2. CASE ClientCalls(r) \/ CallbackCallsSelf(r)
    <3>1. /\ call[r] = "new" /\ call' = [call EXCEPT ![r] = "waiting"]
          /\ UNCHANGED <<result, offered, answer>>
      BY <2>2 DEF ClientCalls, CallbackCallsSelf
    <3>2. AnswerInv'
      BY <1>1, <3>1 DEF CallTypes, AnswerInv, AnswerTypes, Offered, NoResultLeak, Pending,
           Value, Error
    <3>3. Status[r] = "new" /\ Status' = [Status EXCEPT ![r] = "open"]
      BY <1>1, <3>1, StatusMoves DEF Status, StatusOf, Places
    <3> QED
      BY <3>1, <3>2, <3>3, ContractSteps
  <2>3. CASE Refuse(r)
    <3>1. PICK c \in {"full", "noproc"} : call' = [call EXCEPT ![r] = c]
      BY <2>3 DEF Refuse
    <3>2. call[r] = "new" /\ UNCHANGED <<result, offered, answer>>
      BY <2>3 DEF Refuse
    <3>3. AnswerInv'
      BY <1>1, <3>1, <3>2 DEF CallTypes, AnswerInv, AnswerTypes, Offered, NoResultLeak, Pending,
           Value, Error
    <3>4. Status[r] = "new" /\ Status' = [Status EXCEPT ![r] = "failed"]
      BY <1>1, <3>1, <3>2, StatusMoves DEF Status, StatusOf, Places
    <3> QED
      BY <3>2, <3>3, <3>4, ContractSteps
  <2>4. CASE TimeOut(r)
    <3>1. /\ call[r] = "expiring" /\ call' = [call EXCEPT ![r] = "timeout"]
          /\ result' = [result EXCEPT ![r] = {}]
          /\ UNCHANGED <<offered, answer>>
      BY <2>4 DEF TimeOut, Expired
    <3>2. AnswerTypes' /\ Offered'
      BY <1>1, <3>1 DEF AnswerInv, AnswerTypes, Offered, Value, Error
    <3>3. NoResultLeak'
      BY <1>1, <3>1 DEF CallTypes, AnswerInv, AnswerTypes, NoResultLeak, Pending
    <3>4. Status[r] = "open" /\ Status' = [Status EXCEPT ![r] = "failed"]
      BY <1>1, <3>1, StatusMoves DEF Status, StatusOf, Places
    <3>5. Contract!Next
      BY <3>1, <3>4, ContractSteps
    <3> QED
      BY <3>2, <3>3, <3>5 DEF AnswerInv
  <2>5. CASE Expire(r)
    <3>1. /\ call[r] = "waiting" /\ call' = [call EXCEPT ![r] = "expiring"]
          /\ UNCHANGED <<result, offered, answer>>
      BY <2>5 DEF Expire
    <3>2. AnswerInv'
      BY <1>1, <3>1 DEF CallTypes, AnswerInv, AnswerTypes, Offered, NoResultLeak, Pending,
           Value, Error
    <3>3. Status' = [Status EXCEPT ![r] = "open"] /\ Status[r] = "open"
      BY <1>1, <3>1, StatusMoves DEF Status, StatusOf, Places
    <3>4. Status' = Status
      BY <3>3 DEF Status
    <3> QED
      BY <3>1, <3>2, <3>4 DEF Contract!vars, Status, StatusOf
  <2>6. CASE Return(r)
    <3>1. /\ call[r] = "waiting" /\ result[r] # {} /\ call' = [call EXCEPT ![r] = "returned"]
          /\ answer' = [answer EXCEPT ![r] = result[r]]
          /\ result' = [result EXCEPT ![r] = {}]
          /\ UNCHANGED offered
      BY <2>6 DEF Return
    <3>2. PICK a \in offered[r] : result[r] = {a}
      BY <1>1, <3>1 DEF AnswerInv, Offered
    <3>3. a \in Answers
      BY <1>1, <3>2 DEF AnswerInv, AnswerTypes
    <3>4. AnswerTypes'
      BY <1>1, <3>1 DEF AnswerInv, AnswerTypes
    <3>5. Offered'
      BY <1>1, <3>1, <3>2 DEF AnswerInv, AnswerTypes, Offered, Value, Error
    <3>6. NoResultLeak'
      BY <1>1, <3>1 DEF CallTypes, AnswerInv, AnswerTypes, NoResultLeak, Pending
    <3>7. Status[r] = "open" /\ Status' = [Status EXCEPT ![r] = "answered"]
      BY <1>1, <3>1, StatusMoves DEF Status, StatusOf, Places
    <3>8. Contract!Next
      BY <3>1, <3>2, <3>3, <3>7, ContractSteps
    <3> QED
      BY <3>4, <3>5, <3>6, <3>8 DEF AnswerInv
  <2> QED
    BY <1>6, <2>1, <2>2, <2>3, <2>4, <2>5, <2>6 DEF Caller
<1>7. CASE (\E type \in Others : Send(type)) \/ Kill \/ Done \/ UNCHANGED vars
  BY <1>2, <1>7 DEF Send, Kill, Done, vars
<1> QED
  BY <1>5, <1>6, <1>7 DEF Next

-----------------------------------------------------------------------------
(* The theorems. *)

(* A server starts in the invariant. *)
LEMMA Starts == Init => IInv
<1> SUFFICES ASSUME Init PROVE IInv
  OBVIOUS
<1>1. MailInv
  BY NoMessageType, EmptySeq, GenServerAssumption
     DEF Init, MailInv, MailTypes, CallsAreNamed, Numbered
<1>2. AnswerInv
  BY DEF Init, AnswerInv, AnswerTypes, Offered, NoResultLeak
<1>3. ServerTypes
  BY DEF Init, ServerTypes, CallTypes, Places
<1> QED
  BY <1>1, <1>2, <1>3, Parts

(* The invariant holds of every reachable state. *)
LEMMA Invariant == Spec => []IInv
<1>1. IInv /\ [Next]_vars => IInv'
  <2> SUFFICES ASSUME IInv, [Next]_vars PROVE IInv'
    OBVIOUS
  <2>1. ServerTypes' /\ MailInv' /\ AnswerInv'
    BY StepsKeepTypes, StepsKeepOrder, StepsKeepAnswers
  <2> QED
    BY <2>1 DEF IInv, TypeOK, ServerTypes, CallTypes, Places, MailInv, MailTypes, AnswerInv, AnswerTypes
<1> QED
  BY Starts, <1>1, PTL DEF Spec

(* The messages are handled in the order in which the mailbox accepted them, *)
(* across idle timeouts, continuations and calls of the server to itself.    *)
THEOREM TakenInOrder == Spec => []InOrder
<1>1. IInv => InOrder
  <2> SUFFICES ASSUME IInv PROVE InOrder
    OBVIOUS
  <2>1. MailTypes /\ Numbered
    BY Parts DEF MailInv
  <2>2. CASE current.seq = 0
    BY <2>1, <2>2 DEF Numbered, InOrder
  <2>3. CASE current.seq # 0
    <3> DEFINE queue == <<current>> \o mailbox
    <3>1. <<current>> \in Seq(Message) /\ mailbox \in Seq(Message) /\ Len(mailbox) \in Nat
      BY <2>1 DEF MailTypes
    <3>2. /\ Len(queue) = 1 + Len(mailbox) /\ queue[1] = current /\ queue \in Seq(Message)
          /\ \A i \in 1 .. 1 + Len(mailbox) :
               i # 1 => i - 1 \in DOMAIN mailbox /\ queue[i] = mailbox[i - 1]
      BY <3>1, ConcatProperties
    <3>3. DOMAIN queue = 1 .. 1 + Len(mailbox)
      BY <3>2
    <3> HIDE DEF queue
    <3>4. ASSUME NEW i \in DOMAIN queue, NEW j \in DOMAIN queue, i < j
          PROVE  queue[i].seq < queue[j].seq
      <4>1. j # 1 /\ j - 1 \in DOMAIN mailbox /\ queue[j] = mailbox[j - 1]
        BY <3>1, <3>2, <3>3, <3>4
      <4>2. CASE i = 1
        BY <2>1, <3>2, <4>1, <4>2 DEF Numbered
      <4>3. CASE i # 1
        <5>1. i - 1 \in DOMAIN mailbox /\ queue[i] = mailbox[i - 1] /\ i - 1 < j - 1
          BY <3>1, <3>2, <3>3, <3>4, <4>3
        <5> QED
          BY <2>1, <4>1, <5>1 DEF Numbered
      <4> QED
        BY <4>2, <4>3
    <3> QED
      BY <2>3, <3>4 DEF InOrder, queue
  <2> QED
    BY <2>2, <2>3
<1> QED
  BY Invariant, <1>1, PTL

(* A caller gets the answer to its own call, whatever calls are under way    *)
(* and in whatever order they are answered.                                  *)
THEOREM NobodyElsesAnswer == Spec => []AnswersTheirOwnCall
<1>1. IInv => AnswersTheirOwnCall
  BY DEF IInv, Offered, AnswersTheirOwnCall
<1> QED
  BY Invariant, <1>1, PTL

(* An answer that comes late, twice, or to a caller that is being cancelled, *)
(* leaves nothing behind.                                                    *)
THEOREM LateRepliesLeakNothing == Spec => []NoResultLeak
<1>1. IInv => NoResultLeak
  BY DEF IInv
<1> QED
  BY Invariant, <1>1, PTL

(* Step by step, the server is an implementation of the contract of call():  *)
(* every call begins once, is offered answers while it is open, and ends     *)
(* with one of them, refused or failed.                                      *)
THEOREM KeepsContractSafely == Spec => Contract!Safety
<1>1. Init => Contract!Init
  BY DEF Init, Contract!Init
<1>2. IInv /\ [Next]_vars => [Contract!Next]_(Contract!vars)
  BY StepsKeepAnswers
<1> QED
  BY Invariant, <1>1, <1>2, PTL DEF Spec, Contract!Safety
=============================================================================
