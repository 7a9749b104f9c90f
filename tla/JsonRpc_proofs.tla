--------------------------- MODULE JsonRpc_proofs ---------------------------
(***************************************************************************)
(* Proofs about JsonRpc for inputs of any length.                          *)
(***************************************************************************)
EXTENDS JsonRpc, Integers, SequenceTheorems, TLAPS

(* The open request is the message being worked on. *)
OpenRequest == InWork => requests # <<>> /\ requests[Len(requests)] = Current

(* What the message is, by where the main thread is. *)
Place ==
  /\ pc \in {"lock", "decode", "hung", "publish", "publish_content"} =>
       Current > 0 /\ received[Current].kind \in {"request", "notification"}
  /\ pc \in {"answer", "content", "count"} =>
       Current > 0 /\ received[Current].kind \in {"request", "unknown"}
  /\ pc \in {"handle", "unit", "compute"} => Current > 0 /\ received[Current].kind = "request"
  /\ pc \in {"publish", "publish_content"} => received[Current].kind = "notification"

(* The assertion compares with the count when the message was read: no     *)
(* path of a handler has answered before it sends, and none returns        *)
(* without having sent.                                                    *)
Count ==
  /\ pc \in {"lock", "decode", "handle", "unit", "compute", "answer", "content"} =>
       responses_sent = before
  /\ pc = "count" => responses_sent = before + 1
  /\ ResponseCountHolds

(* The error flag of the decoders always stems from a notification after   *)
(* the last decoded request; a refusal under way has its cause.            *)
Cause ==
  /\ m_error /\ pc # "hung" => CauseUpTo(IF pc \in {"lock", "decode"} THEN Current - 1 ELSE Current)
  /\ pc \in {"answer", "content"} /\ answer = "refused" =>
       Incomplete(Current) \/ CauseUpTo(Current - 1)
  /\ RefusedForCause

IInv ==
  /\ TypeOK
  /\ OpenRequest
  /\ Place
  /\ Count
  /\ AnsweredOnceInOrder
  /\ Cause

USE BoundsAssumption
-----------------------------------------------------------------------------
(* A message read later does not change the cause of an earlier error, and *)
(* extends its reach if it is no request.                                  *)
LEMMA CauseStays ==
  ASSUME NEW message \in Message, received \in Seq(Message),
         received' = Append(received, message),
         NEW n \in Int, n <= Len(received), CauseUpTo(n)
  PROVE  /\ CauseUpTo(n)'
         /\ n = Len(received) /\ message.kind # "request" => CauseUpTo(n + 1)'
<1>1. PICK j \in 1 .. n :
        /\ received[j].kind = "notification" /\ Incomplete(j)
        /\ \A k \in j .. n : received[k].kind # "request"
  BY DEF CauseUpTo
<1>2. \A k \in 1 .. n : received'[k] = received[k]
  OBVIOUS
<1>3. CauseUpTo(n)'
  BY <1>1, <1>2 DEF CauseUpTo, Incomplete
<1>4. ASSUME n = Len(received), message.kind # "request" PROVE CauseUpTo(n + 1)'
  <2>1. received'[n + 1] = message
    BY <1>4
  <2>2. \A k \in j .. n + 1 : received'[k].kind # "request"
    <3>1. ASSUME NEW k \in j .. n + 1 PROVE received'[k].kind # "request"
      <4>1. CASE k = n + 1
        BY <1>4, <2>1, <4>1
      <4>2. CASE k # n + 1
        <5>1. k \in j .. n /\ k \in 1 .. n
          BY <4>2
        <5> QED
          BY <1>1, <1>2, <5>1
      <4> QED
        BY <4>1, <4>2
    <3> QED
      BY <3>1
  <2>3. j \in 1 .. n + 1 /\ received'[j].kind = "notification" /\ ~received'[j].complete
    BY <1>1, <1>2 DEF Incomplete
  <2> QED
    BY <2>2, <2>3 DEF CauseUpTo, Incomplete
<1> QED
  BY <1>3, <1>4

(* A message that is no request extends the reach of a cause. *)
LEMMA CauseReaches ==
  ASSUME NEW n \in Int, CauseUpTo(n), received[n + 1].kind # "request"
  PROVE  CauseUpTo(n + 1)
<1>1. PICK j \in 1 .. n :
        /\ received[j].kind = "notification" /\ Incomplete(j)
        /\ \A k \in j .. n : received[k].kind # "request"
  BY DEF CauseUpTo
<1>2. \A k \in j .. n + 1 : received[k].kind # "request"
  BY <1>1
<1> QED
  BY <1>1, <1>2 DEF CauseUpTo

-----------------------------------------------------------------------------
LEMMA InitIInv == Init => IInv
<1> SUFFICES ASSUME Init PROVE IInv
  OBVIOUS
<1>1. TypeOK
  <2>1. received \in Seq(Message) /\ Len(received) <= MaxMessages
    BY DEF Init
  <2>2. requests \in Seq(1 .. Len(received))
    BY DEF Init
  <2>3. answers \in Seq([id : 1 .. Len(received), kind : Answers])
    BY DEF Init
  <2>4. m_error \in BOOLEAN /\ torn \in BOOLEAN
    BY DEF Init
  <2> QED
    BY <2>1, <2>2, <2>3, <2>4 DEF Init, TypeOK, Answers
<1>2. OpenRequest /\ Place /\ Count /\ AnsweredOnceInOrder
  BY DEF Init, OpenRequest, Place, Count, AnsweredOnceInOrder, InWork, Current,
         ResponseCountHolds
<1>3. Cause
  BY DEF Init, Cause, RefusedForCause
<1> QED
  BY <1>1, <1>2, <1>3 DEF IInv

(* Types. *)
LEMMA TypeStep == TypeOK /\ Place /\ [Next]_vars => TypeOK'
<1> SUFFICES ASSUME TypeOK, Place, [Next]_vars PROVE TypeOK'
  OBVIOUS
<1> USE DEF TypeOK, Current
<1>1. ASSUME NEW message \in Message, Receive(message) PROVE TypeOK'
  <2>1. received' \in Seq(Message) /\ Len(received') = Len(received) + 1
    BY <1>1 DEF Receive
  <2>2. requests' \in Seq(1 .. Len(received'))
    <3>1. requests \in Seq(1 .. Len(received'))
      BY <2>1, SeqMonotonic
    <3>2. Append(requests, Current + 1) \in Seq(1 .. Len(received'))
      BY <2>1, <3>1
    <3> QED
      BY <1>1, <3>1, <3>2 DEF Receive
  <2>3. answers' \in Seq([id : 1 .. Len(received'), kind : Answers])
    <3>1. [id : 1 .. Len(received), kind : Answers] \subseteq [id : 1 .. Len(received'), kind : Answers]
      BY <2>1
    <3>2. answers \in Seq([id : 1 .. Len(received'), kind : Answers])
      <4> HIDE DEF TypeOK
      <4>1. answers \in Seq([id : 1 .. Len(received), kind : Answers])
        BY DEF TypeOK
      <4> QED
        BY <3>1, <4>1, SeqMonotonic
    <3> QED
      BY <1>1, <3>2 DEF Receive
  <2>4. Len(received') <= MaxMessages
    BY <1>1, <2>1 DEF Receive
  <2>5. pc' \in {"lock", "answer", "listen"} /\ answer' \in Answers
    BY <1>1 DEF Receive, Answers, Message, Kinds
  <2> QED
    BY <1>1, <2>1, <2>2, <2>3, <2>4, <2>5 DEF Receive, reparseVars, outVars
<1>2. CASE Lock
  BY <1>2 DEF Lock, reparseVars, outVars
<1>2a. CASE DecodeRequest \/ HandleWithoutUnit \/ HandleForUnit \/ GetUnit \/ Compute
  <2>1. answer' \in Answers
    BY <1>2a DEF DecodeRequest, HandleWithoutUnit, HandleForUnit, GetUnit, Compute, Send, Answers
  <2>2. m_error' \in BOOLEAN
    BY <1>2a DEF DecodeRequest, HandleWithoutUnit, HandleForUnit, GetUnit, Compute
  <2> QED
    BY <1>2a, <2>1, <2>2 DEF DecodeRequest, HandleWithoutUnit, HandleForUnit, GetUnit, Compute, Send,
                             reparseVars, outVars
<1>3. CASE DecodeNotification
  <2>1. m_error' \in BOOLEAN
    BY <1>3 DEF DecodeNotification, Missing
  <2> QED
    BY <1>3, <2>1 DEF DecodeNotification, reparseVars, outVars
<1>4. CASE PublishHeader
  <2>1. torn' \in BOOLEAN
    BY <1>4 DEF PublishHeader, WriteHeader
  <2> QED
    BY <1>4, <2>1 DEF PublishHeader, WriteHeader, reparseVars
<1>5. CASE PublishContent
  <2>1. torn' \in BOOLEAN
    BY <1>5 DEF PublishContent, WriteContent
  <2> QED
    BY <1>5, <2>1 DEF PublishContent, WriteContent, reparseVars
<1>6. CASE NotificationDone
  BY <1>6 DEF NotificationDone, reparseVars, outVars
<1>7. CASE AnswerHeader
  <2>1. torn' \in BOOLEAN
    BY <1>7 DEF AnswerHeader, WriteHeader
  <2> QED
    BY <1>7, <2>1 DEF AnswerHeader, WriteHeader, reparseVars
<1>8. CASE AnswerContent
  <2>1. torn' \in BOOLEAN
    BY <1>8 DEF AnswerContent, WriteContent
  <2>2. [id |-> Len(received), kind |-> answer] \in [id : 1 .. Len(received), kind : Answers]
    BY <1>8 DEF AnswerContent, Place
  <2>3. answers' \in Seq([id : 1 .. Len(received), kind : Answers])
    BY <1>8, <2>2 DEF AnswerContent
  <2> QED
    BY <1>8, <2>1, <2>3 DEF AnswerContent, WriteContent, reparseVars
<1>9. CASE CountResponses
  BY <1>9 DEF CountResponses, reparseVars, outVars
<1>10. CASE EndOfInput
  BY <1>10 DEF EndOfInput, reparseVars, outVars
<1>11. CASE ReparsePublish
  <2>1. torn' \in BOOLEAN
    BY <1>11 DEF ReparsePublish, WriteHeader, WriteContent
  <2> QED
    BY <1>11, <2>1 DEF ReparsePublish, WriteHeader, WriteContent, mainVars
<1>12. CASE UNCHANGED vars
  BY <1>12 DEF vars, mainVars, reparseVars, outVars
<1> QED
  BY <1>1, <1>2, <1>2a, <1>3, <1>4, <1>5, <1>6, <1>7, <1>8, <1>9, <1>10, <1>11, <1>12
     DEF Next, Main

(* The answers follow the requests, one behind while a request is worked   *)
(* on.                                                                     *)
LEMMA OrderStep ==
  TypeOK /\ Place /\ OpenRequest /\ AnsweredOnceInOrder /\ [Next]_vars =>
    Place' /\ OpenRequest' /\ AnsweredOnceInOrder'
<1> SUFFICES ASSUME TypeOK, Place, OpenRequest, AnsweredOnceInOrder, [Next]_vars
             PROVE  Place' /\ OpenRequest' /\ AnsweredOnceInOrder'
  OBVIOUS
<1>0. /\ received \in Seq(Message) /\ requests \in Seq(Nat)
      /\ answers \in Seq([id : 1 .. Len(received), kind : Answers])
  <2>1. requests \in Seq(Nat)
    <3>1. requests \in Seq(1 .. Len(received)) /\ 1 .. Len(received) \subseteq Nat
      BY DEF TypeOK
    <3> QED
      BY <3>1, SeqMonotonic
  <2>2. received \in Seq(Message) /\ answers \in Seq([id : 1 .. Len(received), kind : Answers])
    BY DEF TypeOK
  <2> QED
    BY <2>1, <2>2
<1> USE DEF Current
<1>1. ASSUME NEW message \in Message, Receive(message)
      PROVE  Place' /\ OpenRequest' /\ AnsweredOnceInOrder'
  <2>1. /\ Len(received') = Len(received) + 1
        /\ received'[Len(received')] = message
    BY <1>1, <1>0 DEF Receive
  <2>2. Place'
    BY <1>1, <2>1 DEF Receive, Place, Message, Kinds
  <2>3. OpenRequest' /\ AnsweredOnceInOrder'
    <3>0. ~InWork /\ Len(requests) = Len(answers)
      BY <1>1, <1>0 DEF Receive, InWork, AnsweredOnceInOrder
    <3>1. CASE message.kind \in {"request", "unknown"}
      <4>1. requests' = Append(requests, Len(received) + 1) /\ answers' = answers
        BY <1>1, <3>1 DEF Receive
      <4>2. InWork'
        BY <1>1, <2>1, <3>1 DEF Receive, InWork
      <4>3. /\ Len(requests') = Len(answers') + 1
            /\ requests'[Len(requests')] = Len(received')
            /\ \A i \in 1 .. Len(requests) : requests'[i] = requests[i]
        BY <1>0, <2>1, <3>0, <4>1
      <4>4. \A i \in DOMAIN answers : answers[i].id = requests[i] /\ i \in 1 .. Len(requests)
        BY <1>0, <3>0 DEF AnsweredOnceInOrder
      <4> QED
        BY <1>0, <4>1, <4>2, <4>3, <4>4 DEF OpenRequest, AnsweredOnceInOrder
    <3>2. CASE message.kind \in {"notification", "ignored"}
      <4>1. requests' = requests /\ answers' = answers /\ ~InWork'
        BY <1>1, <2>1, <3>2 DEF Receive, InWork
      <4> QED
        BY <3>0, <4>1, <1>0 DEF OpenRequest, AnsweredOnceInOrder
    <3> QED
      BY <3>1, <3>2 DEF Message, Kinds
  <2> QED
    BY <2>2, <2>3
<1>2. CASE DecodeRequest \/ HandleWithoutUnit \/ HandleForUnit \/ GetUnit \/ Compute
  <2>1. InWork /\ InWork' /\ UNCHANGED <<received, requests, answers>>
    BY <1>2 DEF DecodeRequest, HandleWithoutUnit, HandleForUnit, GetUnit, Compute, Send, InWork, Place
  <2>2. Place'
    BY <1>2 DEF DecodeRequest, HandleWithoutUnit, HandleForUnit, GetUnit, Compute, Send, Place
  <2> QED
    BY <2>1, <2>2 DEF OpenRequest, AnsweredOnceInOrder
<1>3. CASE AnswerContent
  <2>1. /\ InWork /\ ~InWork' /\ UNCHANGED <<received, requests>>
        /\ answers' = Append(answers, [id |-> Len(received), kind |-> answer])
        /\ pc = "content" /\ pc' = "count"
    BY <1>3 DEF AnswerContent, InWork
  <2>2. Len(requests) = Len(answers) + 1 /\ requests[Len(requests)] = Len(received)
    BY <2>1 DEF OpenRequest, AnsweredOnceInOrder
  <2>3. /\ Len(answers') = Len(answers) + 1
        /\ answers'[Len(answers')].id = Len(received)
        /\ \A i \in 1 .. Len(answers) : answers'[i] = answers[i]
    BY <2>1, <1>0
  <2>4. AnsweredOnceInOrder'
    BY <1>0, <2>1, <2>2, <2>3 DEF AnsweredOnceInOrder
  <2> QED
    BY <2>1, <2>4 DEF Place, OpenRequest
<1>4. CASE \/ Lock \/ DecodeNotification \/ PublishHeader \/ PublishContent \/ NotificationDone
           \/ AnswerHeader \/ CountResponses \/ EndOfInput
  <2>1. UNCHANGED <<received, requests, answers>> /\ (InWork' <=> InWork)
    BY <1>4 DEF Lock, DecodeNotification, PublishHeader, PublishContent, NotificationDone, AnswerHeader,
                CountResponses, EndOfInput, InWork
  <2>2. Place'
    BY <1>4 DEF Lock, DecodeNotification, PublishHeader, PublishContent, NotificationDone, AnswerHeader,
                CountResponses, EndOfInput, Place
  <2> QED
    BY <2>1, <2>2 DEF OpenRequest, AnsweredOnceInOrder
<1>5. CASE ReparsePublish \/ UNCHANGED vars
  BY <1>5 DEF ReparsePublish, vars, mainVars, Place, OpenRequest, AnsweredOnceInOrder, InWork
<1> QED
  BY <1>1, <1>2, <1>3, <1>4, <1>5 DEF Next, Main

(* One response per request, so the assertion holds. *)
LEMMA CountStep == TypeOK /\ Count /\ [Next]_vars => Count'
<1> SUFFICES ASSUME TypeOK, Count, [Next]_vars PROVE Count'
  OBVIOUS
<1> USE DEF Count, ResponseCountHolds
<1>0. responses_sent \in Nat /\ before \in Nat
  BY DEF TypeOK
<1>1. ASSUME NEW message \in Message, Receive(message) PROVE Count'
  BY <1>0, <1>1 DEF Receive, Message, Kinds
<1>2. CASE \/ Lock \/ DecodeNotification \/ PublishHeader \/ PublishContent
           \/ NotificationDone \/ EndOfInput
  BY <1>0, <1>2 DEF Lock, DecodeNotification, PublishHeader, PublishContent, NotificationDone,
                    EndOfInput
<1>2a. CASE DecodeRequest \/ HandleWithoutUnit \/ HandleForUnit \/ GetUnit \/ Compute
  BY <1>0, <1>2a DEF DecodeRequest, HandleWithoutUnit, HandleForUnit, GetUnit, Compute, Send
<1>3. CASE AnswerHeader \/ AnswerContent \/ CountResponses
  BY <1>0, <1>3 DEF AnswerHeader, AnswerContent, CountResponses
<1>4. CASE ReparsePublish \/ UNCHANGED vars
  BY <1>4 DEF ReparsePublish, vars, mainVars
<1> QED
  BY <1>1, <1>2, <1>2a, <1>3, <1>4 DEF Next, Main

(* A refusal has its cause. *)
LEMMA CauseStep == TypeOK /\ Place /\ Cause /\ [Next]_vars => Cause'
<1> SUFFICES ASSUME TypeOK, Place, Cause, [Next]_vars PROVE Cause'
  OBVIOUS
<1>0. /\ received \in Seq(Message) /\ Current \in Nat
      /\ answers \in Seq([id : 1 .. Len(received), kind : Answers])
  BY DEF TypeOK, Current
<1>a. ASSUME NEW i \in DOMAIN answers PROVE answers[i].id \in 1 .. Current
  <2>1. answers[i] \in [id : 1 .. Len(received), kind : Answers]
    <3>1. i \in 1 .. Len(answers)
      BY <1>0
    <3> QED
      BY <1>0, <3>1, ElementOfSeq
  <2> QED
    BY <2>1 DEF Current
<1>1. ASSUME NEW message \in Message, Receive(message) PROVE Cause'
  <2>1. /\ received' = Append(received, message) /\ Current' = Current + 1
        /\ UNCHANGED <<answers, m_error>> /\ pc = "listen"
        /\ pc' \in {"answer", "content"} => answer' # "refused"
        /\ pc' \in {"lock", "answer", "listen"}
        /\ pc' # "lock" => message.kind # "request"
    BY <1>0, <1>1 DEF Receive, Current, Message, Kinds
  <2>2. ASSUME NEW n \in Int, n = Len(received), m_error
        PROVE  CauseUpTo(n)' /\ (message.kind # "request" => CauseUpTo(n + 1)')
    <3>1. CauseUpTo(n)
      BY <2>1, <2>2 DEF Cause, Current
    <3> QED
      BY <1>0, <2>1, <2>2, <3>1, CauseStays
  <2>3. ASSUME NEW n \in Int, n = Len(received), m_error'
        PROVE  CauseUpTo(IF pc \in {"lock", "decode"} THEN Current - 1 ELSE Current)'
    <3>1. CauseUpTo(n)' /\ (message.kind # "request" => CauseUpTo(n + 1)')
      BY <2>1, <2>2, <2>3
    <3>2. CASE pc' = "lock"
      <4>1. Current' - 1 = n
        BY <1>0, <2>1, <2>3 DEF Current
      <4> QED
        BY <3>1, <3>2, <4>1 DEF CauseUpTo, Incomplete
    <3>3. CASE pc' # "lock"
      <4>1. Current' = n + 1
        BY <1>0, <2>1, <2>3 DEF Current
      <4> QED
        BY <2>1, <3>1, <3>3, <4>1 DEF CauseUpTo, Incomplete
    <3> QED
      BY <3>2, <3>3
  <2>4. RefusedForCause'
    <3> SUFFICES ASSUME NEW i \in DOMAIN answers, answers[i].kind = "refused"
                 PROVE  Incomplete(answers[i].id)' \/ CauseUpTo(answers[i].id - 1)'
      BY <2>1 DEF RefusedForCause, CauseUpTo, Incomplete
    <3>1. answers[i].id \in 1 .. Len(received)
      BY <1>a DEF Current
    <3>2. CASE Incomplete(answers[i].id)
      <4>1. received'[answers[i].id] = received[answers[i].id]
        BY <1>0, <2>1, <3>1
      <4> QED
        BY <2>1, <3>2, <4>1 DEF Incomplete
    <3>3. CASE CauseUpTo(answers[i].id - 1)
      <4>1. answers[i].id - 1 \in Int /\ answers[i].id - 1 <= Len(received)
        BY <1>0, <3>1
      <4>2. CauseUpTo(answers[i].id - 1)'
        BY <1>0, <2>1, <3>3, <4>1, CauseStays
      <4> QED
        BY <2>1, <4>2 DEF CauseUpTo
    <3> QED
      BY <3>2, <3>3 DEF Cause, RefusedForCause
  <2>5. Len(received) \in Int
    BY <1>0
  <2> QED
    BY <2>1, <2>3, <2>4, <2>5 DEF Cause
<1>2. CASE DecodeRequest
  <2>1. /\ UNCHANGED <<received, answers>> /\ m_error' = FALSE /\ pc = "decode"
        /\ pc' \in {"answer", "content"} => Missing
    BY <1>2 DEF DecodeRequest, Send
  <2>2. pc' \in {"answer", "content"} => Incomplete(Current) \/ CauseUpTo(Current - 1)
    BY <2>1 DEF Cause, Missing, Incomplete
  <2> QED
    BY <2>1, <2>2 DEF Cause, RefusedForCause, Incomplete, CauseUpTo, Current
<1>2a. CASE HandleWithoutUnit \/ HandleForUnit \/ GetUnit \/ Compute
  <2>1. /\ UNCHANGED <<received, answers, m_error>> /\ pc \in {"handle", "unit", "compute"}
        /\ pc' \notin {"lock", "decode"}
        /\ pc' \in {"answer", "content"} => answer' # "refused"
    BY <1>2a DEF HandleWithoutUnit, HandleForUnit, GetUnit, Compute, Send
  <2> QED
    BY <2>1 DEF Cause, RefusedForCause, Incomplete, CauseUpTo, Current
<1>3. CASE DecodeNotification
  <2>1. /\ UNCHANGED <<received, answers>> /\ m_error' = Missing
        /\ pc = "decode" /\ pc' \in {"publish", "hung"}
        /\ received[Current].kind = "notification"
    BY <1>3 DEF DecodeNotification
  <2>2. m_error => CauseUpTo(Current)
    <3> HAVE m_error
    <3>1. CauseUpTo(Current - 1) /\ Current - 1 \in Int /\ (Current - 1) + 1 = Current
      BY <1>0, <2>1 DEF Cause
    <3>2. received[(Current - 1) + 1].kind # "request"
      BY <2>1, <3>1
    <3>3. CauseUpTo((Current - 1) + 1)
      BY <3>1, <3>2, CauseReaches
    <3> QED
      BY <3>1, <3>3
  <2>3. ~received[Current].complete => CauseUpTo(Current)
    <3>1. Current \in 1 .. Current /\ \A k \in Current .. Current : k = Current
      BY <1>0, <2>1 DEF Place
    <3> QED
      BY <2>1, <3>1 DEF CauseUpTo, Incomplete
  <2>4. Missing => CauseUpTo(Current)
    BY <2>2, <2>3 DEF Missing
  <2> QED
    BY <2>1, <2>4 DEF Cause, RefusedForCause, Incomplete, CauseUpTo, Current
<1>4. CASE AnswerContent
  <2>1. /\ UNCHANGED <<received, m_error>> /\ pc = "content" /\ pc' = "count"
        /\ answers' = Append(answers, [id |-> Current, kind |-> answer])
    BY <1>4 DEF AnswerContent
  <2>2. answer = "refused" => Incomplete(Current) \/ CauseUpTo(Current - 1)
    BY <2>1 DEF Cause
  <2>3. /\ \A i \in DOMAIN answers' : answers'[i] \in {answers[k] : k \in DOMAIN answers}
                                                    \cup {[id |-> Current, kind |-> answer]}
    BY <1>0, <2>1
  <2>4. \A i \in DOMAIN answers' : answers'[i].kind = "refused" =>
           Incomplete(answers'[i].id) \/ CauseUpTo(answers'[i].id - 1)
    BY <2>2, <2>3 DEF Cause, RefusedForCause
  <2> QED
    BY <2>1, <2>4 DEF Cause, RefusedForCause, Incomplete, CauseUpTo, Current
<1>6. CASE Lock
  <2>1. /\ UNCHANGED <<received, answers, m_error, answer>> /\ pc = "lock" /\ pc' \in {"decode", "hung"}
    BY <1>6 DEF Lock
  <2> QED
    BY <2>1 DEF Cause, RefusedForCause, Incomplete, CauseUpTo, Current
<1>5. CASE \/ PublishHeader \/ PublishContent \/ NotificationDone \/ AnswerHeader
           \/ CountResponses \/ EndOfInput \/ ReparsePublish \/ UNCHANGED vars
  <2>1. /\ UNCHANGED <<received, answers, m_error, answer>>
        /\ (pc' \in {"lock", "decode"} <=> pc \in {"lock", "decode"}) /\ (pc = "hung" => pc' = "hung")
        /\ pc' \in {"answer", "content"} => pc \in {"answer", "content"}
    BY <1>5 DEF PublishHeader, PublishContent, NotificationDone, AnswerHeader, CountResponses,
                EndOfInput, ReparsePublish, vars, mainVars
  <2> QED
    BY <2>1 DEF Cause, RefusedForCause, Incomplete, CauseUpTo, Current
<1> QED
  BY <1>1, <1>2, <1>2a, <1>3, <1>4, <1>5, <1>6 DEF Next, Main

-----------------------------------------------------------------------------
THEOREM Inductive == Spec => []IInv
<1>1. IInv /\ [Next]_vars => IInv'
  BY TypeStep, OrderStep, CountStep, CauseStep DEF IInv
<1> QED
  BY InitIInv, <1>1, PTL DEF Spec

(* Types, for inputs of any length. *)
THEOREM TypeCorrect == Spec => []TypeOK
BY Inductive, PTL DEF IInv

(* Every request is answered once, in order: "Must send exactly one        *)
(* response to a message with an ID".                                      *)
THEOREM InOrder == Spec => []AnsweredOnceInOrder
BY Inductive, PTL DEF IInv

(* The assertion on m_responses_sent in handle_incoming never fails. *)
THEOREM OneResponse == Spec => []ResponseCountHolds
<1>1. IInv => ResponseCountHolds
  BY DEF IInv, Count
<1> QED
  BY Inductive, <1>1, PTL

(* "Required parameters missing" has its cause in the request itself or in *)
(* a notification since the last decoded request.                          *)
THEOREM Refusals == Spec => []RefusedForCause
<1>1. IInv => RefusedForCause
  BY DEF IInv, Cause
<1> QED
  BY Inductive, <1>1, PTL
=============================================================================
