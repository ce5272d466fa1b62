-------------------------- MODULE ChatTurnsProofs --------------------------
(***************************************************************************)
(* The safety of ChatTurns, for every number of connections, turns,        *)
(* invocations and mishaps: sessions are counted and bounded as the        *)
(* billing means it, and no turn is lost or overtaken.                     *)
(***************************************************************************)
EXTENDS ChatTurns, FiniteSetTheorems, TLAPS

-----------------------------------------------------------------------------
(* The inductive invariant. *)

PageType ==
    /\ open \subseteq Conns /\ known \subseteq Conns /\ loading \subseteq Conns
    /\ sent \in [Conns -> Nat] /\ \A c \in Conns : sent[c] <= MaxTurns[c]
    /\ named \subseteq Messages
    /\ told \subseteq Messages /\ aside \subseteq Messages

QueueType ==
    /\ pending \subseteq Messages /\ dead \subseteq Messages \ pending
    /\ receives \in [Messages -> 0..MaxReceive]

HandlerType ==
    /\ batch \in [Workers -> Seq(Messages)] /\ at \in [Workers -> Nat]
    /\ step \in [Workers -> Steps]
    /\ \A w \in Workers : at[w] <= Len(batch[w]) + 1 /\ (step[w] = "idle" <=> batch[w] = <<>>)

BillingType ==
    /\ ledger \subseteq Sessions /\ sessionCount \in Nat /\ charges \in [Sessions -> 0..2]
    /\ served \subseteq Sessions /\ unchecked \subseteq served /\ readded \subseteq Sessions

MishapType == mishaps \in 0..MaxMishaps

Sent(m) == Turn(m) <= sent[Conn(m)]

\* What is in the queue or in hand was sent, and no message is in two hands.
HandsInv ==
    /\ \A m \in pending \cup dead : Sent(m)
    /\ \A w \in Workers : \A i \in DOMAIN batch[w] : Sent(batch[w][i])
    /\ \A v, w \in Workers : \A i \in DOMAIN batch[v], j \in DOMAIN batch[w] :
           batch[v][i] = batch[w][j] => v = w

\* A row of the ledger is of a message that was sent, and of its only session if
\* it was sent with a conversationId; only rows are counted or pass
\* the quota on a true count.
LedgerInv ==
    /\ \A s \in ledger : Sent(s[1]) /\ (s[1] \in named => s[2] = 0)
    /\ \A s \in Sessions : charges[s] > 0 => s \in ledger
    /\ \A s \in Sessions : charges[s] > 1 => s \in readded
    /\ Checked \subseteq ledger

\* An invocation between its put and its increment is the only one to count the row.
Counts(w) == at[w] \in DOMAIN batch[w] =>
    /\ step[w] = "increment" =>
           /\ Session(Current(w)) \in ledger
           /\ Session(Current(w)) \notin Checked
           /\ charges[Session(Current(w))] = 0
    /\ step[w] = "readCount" => Session(Current(w)) \in ledger

CountingInv == \A w \in Workers : Counts(w)

Charged == {s \in Sessions : charges[s] > 0}

\* The month's count is at least the number of sessions in it.
QuotaInv ==
    /\ IsFiniteSet(Charged) /\ Cardinality(Charged) <= sessionCount
    /\ QuotaHolds

Answered(m) == Conn(m) \in open => m \in told \cup aside

\* What an invocation has behind it is answered or given up, and what it has
\* before it comes in the order of the turns.
BehindInv ==
    \A w \in Workers : \A j \in DOMAIN batch[w] :
        /\ j < at[w] => Answered(batch[w][j])
        /\ \A m \in pending :
               Conn(m) = Conn(batch[w][j]) /\ Turn(m) < Turn(batch[w][j])
                   => \E i \in DOMAIN batch[w] : i < j /\ batch[w][i] = m

TellingInv == SettledIsTold /\ AnsweredInOrder /\ \A m \in told : Sent(m)

-----------------------------------------------------------------------------
(* Messages and sessions. *)

\* A message is a connection and one of its turns.
LEMMA MessageShape ==
    ASSUME NEW m \in Messages
    PROVE  Conn(m) \in Conns /\ Turn(m) \in Nat /\ Turn(m) \in 1..MaxTurns[Conn(m)] /\ m = <<Conn(m), Turn(m)>>
<1>1. PICK c \in Conns : m \in {c} \X (1..MaxTurns[c])
    BY DEF Messages
<1>2. m[1] = c /\ m[2] \in 1..MaxTurns[c] /\ m = <<m[1], m[2]>>
    BY <1>1
<1> QED BY <1>2, ChatAssumption DEF Conn, Turn

\* The message of a connection and a turn.
LEMMA MessageMade ==
    ASSUME NEW c \in Conns, NEW t \in Nat, t >= 1, t <= MaxTurns[c]
    PROVE  <<c, t>> \in Messages /\ Conn(<<c, t>>) = c /\ Turn(<<c, t>>) = t
<1>1. <<c, t>> \in {c} \X (1..MaxTurns[c])
    BY ChatAssumption
<1> QED BY <1>1 DEF Messages, Conn, Turn

\* A session is one of its message, and that of a named message is the first.
LEMMA SessionShape ==
    ASSUME NEW m \in Messages, QueueType
    PROVE  /\ Session(m) \in Sessions /\ Session(m)[1] = m
           /\ m \in named => Session(m)[2] = 0
<1>1. receives[m] \in 0..MaxReceive /\ 0 \in 0..MaxReceive
    BY ChatAssumption DEF QueueType
<1> QED BY <1>1 DEF Session, Sessions

\* The current message of an invocation.
LEMMA CurrentShape ==
    ASSUME HandlerType, NEW w \in Workers, at[w] \in DOMAIN batch[w]
    PROVE  Current(w) \in Messages /\ Current(w) = batch[w][at[w]] /\ at[w] \in 1..Len(batch[w])
BY DEF HandlerType, Current

-----------------------------------------------------------------------------
(* Types. *)

\* Mishaps stay within their bound.
LEMMA MishapsCounted ==
    ASSUME MishapType, Smooth \/ \E kind \in Mishaps : Mishap(kind)
    PROVE  MishapType'
BY ChatAssumption DEF MishapType, Smooth, Mishap

\* A turn that is sent is a message that was not sent before.
LEMMA NewMessage ==
    ASSUME PageType, NEW c \in Conns, Send(c)
    PROVE  \E m \in Messages :
               /\ ~Sent(m) /\ Conn(m) = c /\ m = <<c, sent[c] + 1>>
               /\ Turn(m) = sent[c] + 1 /\ sent[c] \in Nat
<1>1. sent[c] \in Nat /\ sent[c] + 1 \in Nat /\ sent[c] + 1 >= 1
    BY DEF PageType
<1>2. sent[c] + 1 <= MaxTurns[c]
    BY <1>1, ChatAssumption DEF Send
<1>3. <<c, sent[c] + 1>> \in Messages /\ Conn(<<c, sent[c] + 1>>) = c /\ Turn(<<c, sent[c] + 1>>) = sent[c] + 1
    BY <1>1, <1>2, MessageMade
<1> QED BY <1>1, <1>3 DEF Sent

\* Mishaps stay within their bound in every step.
LEMMA MishapStep == MishapType /\ [Next]_vars => MishapType'
<1> SUFFICES ASSUME MishapType, [Next]_vars PROVE MishapType'
    OBVIOUS
<1>1. ASSUME NEW c \in Conns, Send(c) PROVE MishapType'
    BY <1>1 DEF Send, MishapType
<1>2. ASSUME NEW c \in Conns, ResetChat(c) PROVE MishapType'
    BY <1>2 DEF ResetChat, MishapType
<1>3. ASSUME NEW c \in Conns, ResponseTimeout(c) PROVE MishapType'
    BY <1>3 DEF ResponseTimeout, MishapType
<1>4. ASSUME NEW c \in Conns, Close(c) PROVE MishapType'
    BY <1>4, MishapsCounted DEF Close, Mishaps
<1>5. ASSUME NEW m \in Messages, DeadLetter(m) PROVE MishapType'
    BY <1>5 DEF DeadLetter, MishapType
<1>6. ASSUME NEW w \in Workers, Receive(w) PROVE MishapType'
    BY <1>6 DEF Receive, MishapType
<1>7. ASSUME NEW w \in Workers, EndLoop(w) PROVE MishapType'
    BY <1>7, MishapsCounted DEF EndLoop, Mishaps
<1>8. ASSUME NEW w \in Workers, PutLedger(w) PROVE MishapType'
    BY <1>8, MishapsCounted DEF PutLedger, Mishaps
<1>9. ASSUME NEW w \in Workers, Increment(w) PROVE MishapType'
    BY <1>9, MishapsCounted DEF Increment, Mishaps
<1>10. ASSUME NEW w \in Workers, ReadCount(w) PROVE MishapType'
    BY <1>10, MishapsCounted DEF ReadCount, Mishaps
<1>11. ASSUME NEW w \in Workers, Invoke(w) PROVE MishapType'
    BY <1>11 DEF Invoke, MishapType
<1>12. ASSUME NEW w \in Workers, StreamChunks(w) PROVE MishapType'
    BY <1>12, MishapsCounted DEF StreamChunks, PostFails, Mishaps
<1>13. ASSUME NEW w \in Workers, SendEnd(w) PROVE MishapType'
    BY <1>13, MishapsCounted DEF SendEnd, PostFails, Mishaps
<1>14. ASSUME NEW w \in Workers, Refuse(w) PROVE MishapType'
    BY <1>14, MishapsCounted DEF Refuse, PostFails, Mishaps
<1>15. ASSUME NEW w \in Workers, SendErrorMessage(w) PROVE MishapType'
    BY <1>15, MishapsCounted DEF SendErrorMessage, PostFails, Mishaps
<1>16. ASSUME NEW w \in Workers, Dies(w) PROVE MishapType'
    BY <1>16, MishapsCounted DEF Dies, Mishaps
<1>17. ASSUME UNCHANGED vars PROVE MishapType'
    BY <1>17 DEF vars, pageVars, queueVars, handlerVars, billingVars, MishapType
<1> QED
  BY <1>1, <1>2, <1>3, <1>4, <1>5, <1>6, <1>7, <1>8, <1>9, <1>10, <1>11, <1>12, <1>13, <1>14,
     <1>15, <1>16, <1>17
  DEF Next, HandlerStep

\* The page keeps its types.
LEMMA PageStep == PageType /\ HandlerType /\ [Next]_vars => PageType'
<1> SUFFICES ASSUME PageType, HandlerType, [Next]_vars PROVE PageType'
    OBVIOUS
<1> USE DEF PageType, pageVars
<1>1. ASSUME NEW c \in Conns, Send(c) PROVE PageType'
    <2>1. PICK m \in Messages : m = <<c, sent[c] + 1>>
        BY <1>1, NewMessage
    <2>2. sent' = [sent EXCEPT ![c] = @ + 1] /\ sent[c] < MaxTurns[c]
        BY <1>1 DEF Send
    <2>3. named' = IF c \in known THEN named \cup {m} ELSE named
        BY <1>1, <2>1 DEF Send
    <2>4. loading' = loading \cup {c}
        BY <1>1 DEF Send
    <2>5. open' = open /\ known' = known /\ told' = told /\ aside' = aside
        BY <1>1 DEF Send
    <2>6. sent' \in [Conns -> Nat]
        BY <2>2
    <2>7. ASSUME NEW d \in Conns PROVE sent'[d] <= MaxTurns[d]
        <3>1. sent[d] \in Nat /\ MaxTurns[d] \in Nat /\ sent[d] <= MaxTurns[d]
            BY ChatAssumption
        <3>2. sent'[d] = IF d = c THEN sent[d] + 1 ELSE sent[d]
            BY <2>2
        <3> QED BY <2>2, <3>1, <3>2
    <2> QED BY <2>1, <2>3, <2>4, <2>5, <2>6, <2>7
<1>2. ASSUME NEW c \in Conns, ResetChat(c) PROVE PageType'
    BY <1>2 DEF ResetChat
<1>3. ASSUME NEW c \in Conns, ResponseTimeout(c) PROVE PageType'
    BY <1>3 DEF ResponseTimeout
<1>4. ASSUME NEW c \in Conns, Close(c) PROVE PageType'
    BY <1>4 DEF Close
<1>5. ASSUME NEW m \in Messages, DeadLetter(m) PROVE PageType'
    BY <1>5 DEF DeadLetter
<1>6. ASSUME NEW w \in Workers, Receive(w) PROVE PageType'
    BY <1>6 DEF Receive
<1>7. ASSUME NEW w \in Workers, EndLoop(w) PROVE PageType'
    BY <1>7 DEF EndLoop, Rest, HandlerType
<1>8. ASSUME NEW w \in Workers, PutLedger(w) PROVE PageType'
    BY <1>8 DEF PutLedger
<1>9. ASSUME NEW w \in Workers, Increment(w) PROVE PageType'
    BY <1>9 DEF Increment
<1>10. ASSUME NEW w \in Workers, ReadCount(w) PROVE PageType'
    BY <1>10 DEF ReadCount
<1>11. ASSUME NEW w \in Workers, Invoke(w) PROVE PageType'
    BY <1>11 DEF Invoke
<1>12. ASSUME NEW w \in Workers, StreamChunks(w) PROVE PageType'
    BY <1>12, CurrentShape, MessageShape
    DEF StreamChunks, HandlerAt, ShowContent, ShowNothing, CurrentConn
<1>13. ASSUME NEW w \in Workers, SendEnd(w) PROVE PageType'
    BY <1>13, CurrentShape, MessageShape
    DEF SendEnd, HandlerAt, ShowEnd, ShowContent, ShowNothing, CurrentConn
<1>14. ASSUME NEW w \in Workers, Refuse(w) PROVE PageType'
    BY <1>14, CurrentShape, MessageShape
    DEF Refuse, HandlerAt, ShowEnd, ShowContent, ShowNothing, CurrentConn
<1>15. ASSUME NEW w \in Workers, SendErrorMessage(w) PROVE PageType'
    <2>1. Current(w) \in Messages /\ CurrentConn(w) \in Conns
        BY <1>15, CurrentShape, MessageShape DEF SendErrorMessage, HandlerAt, CurrentConn
    <2>2. at[w] \in Nat /\ batch[w] \in Seq(Messages)
        BY DEF HandlerType
    <2>3. aside' \subseteq Messages
        <3>1. CASE UNCHANGED aside
            BY <3>1
        <3>2. CASE \E i \in (at[w] + 1)..(Len(batch[w]) + 1) : aside' = aside \cup {batch[w][j] : j \in at[w]..(i - 1)}
            <4>1. PICK i \in (at[w] + 1)..(Len(batch[w]) + 1) : aside' = aside \cup {batch[w][j] : j \in at[w]..(i - 1)}
                BY <3>2
            <4>2. at[w] \in 1..Len(batch[w])
                BY <1>15, CurrentShape DEF SendErrorMessage, HandlerAt
            <4>3. \A j \in at[w]..(i - 1) : batch[w][j] \in Messages
                BY <2>2, <4>2
            <4> QED BY <4>1, <4>3
        <3> QED BY <1>15, <3>1, <3>2 DEF SendErrorMessage
    <2>4. known' \subseteq known \cup {CurrentConn(w)} /\ loading' \subseteq loading /\ told' \subseteq told \cup {Current(w)}
        BY <1>15 DEF SendErrorMessage, ShowEnd, ShowContent, ShowError, ShowNothing, CurrentConn
    <2>5. UNCHANGED <<open, sent, named>>
        BY <1>15 DEF SendErrorMessage
    <2> QED BY <2>1, <2>3, <2>4, <2>5
<1>16. ASSUME NEW w \in Workers, Dies(w) PROVE PageType'
    BY <1>16 DEF Dies
<1>17. ASSUME UNCHANGED vars PROVE PageType'
    BY <1>17 DEF vars, pageVars, queueVars, handlerVars, billingVars
<1> HIDE DEF PageType
<1> QED
  BY <1>1, <1>2, <1>3, <1>4, <1>5, <1>6, <1>7, <1>8, <1>9, <1>10, <1>11, <1>12, <1>13, <1>14,
     <1>15, <1>16, <1>17
  DEF Next, HandlerStep

\* The queue keeps its types.
LEMMA QueueStep == PageType /\ QueueType /\ HandlerType /\ HandsInv /\ [Next]_vars => QueueType'
<1> SUFFICES ASSUME PageType, QueueType, HandlerType, HandsInv, [Next]_vars PROVE QueueType'
    OBVIOUS
<1> USE DEF QueueType, queueVars
<1>1. ASSUME NEW c \in Conns, Send(c) PROVE QueueType'
    <2>1. PICK m \in Messages : ~Sent(m) /\ m = <<c, sent[c] + 1>>
        BY <1>1, NewMessage
    <2>2. pending' = pending \cup {m} /\ UNCHANGED <<dead, receives>>
        BY <1>1, <2>1 DEF Send
    <2> QED BY <2>1, <2>2 DEF HandsInv
<1>2. ASSUME NEW c \in Conns, ResetChat(c) PROVE QueueType'
    BY <1>2 DEF ResetChat
<1>3. ASSUME NEW c \in Conns, ResponseTimeout(c) PROVE QueueType'
    BY <1>3 DEF ResponseTimeout
<1>4. ASSUME NEW c \in Conns, Close(c) PROVE QueueType'
    BY <1>4 DEF Close
<1>5. ASSUME NEW m \in Messages, DeadLetter(m) PROVE QueueType'
    BY <1>5 DEF DeadLetter
<1>6. ASSUME NEW w \in Workers, Receive(w) PROVE QueueType'
    <2>1. PICK b \in Batches : receives' = [m \in Messages |-> receives[m] + IF m \in Elements(b) THEN 1 ELSE 0]
        BY <1>6 DEF Receive
    <2>2. \A m \in Elements(b) : receives[m] < MaxReceive
        BY <1>6, <2>1 DEF Batches
    <2>3. UNCHANGED <<pending, dead>>
        BY <1>6 DEF Receive
    <2> QED BY <1>6, <2>1, <2>2, <2>3, ChatAssumption
<1>7. ASSUME NEW w \in Workers, EndLoop(w) PROVE QueueType'
    BY <1>7 DEF EndLoop, Return
<1>8. ASSUME NEW w \in Workers, PutLedger(w) PROVE QueueType'
    BY <1>8 DEF PutLedger
<1>9. ASSUME NEW w \in Workers, Increment(w) PROVE QueueType'
    BY <1>9 DEF Increment
<1>10. ASSUME NEW w \in Workers, ReadCount(w) PROVE QueueType'
    BY <1>10 DEF ReadCount
<1>11. ASSUME NEW w \in Workers, Invoke(w) PROVE QueueType'
    BY <1>11 DEF Invoke
<1>12. ASSUME NEW w \in Workers, StreamChunks(w) PROVE QueueType'
    BY <1>12 DEF StreamChunks
<1>13. ASSUME NEW w \in Workers, SendEnd(w) PROVE QueueType'
    BY <1>13 DEF SendEnd
<1>14. ASSUME NEW w \in Workers, Refuse(w) PROVE QueueType'
    BY <1>14 DEF Refuse
<1>15. ASSUME NEW w \in Workers, SendErrorMessage(w) PROVE QueueType'
    BY <1>15 DEF SendErrorMessage, Throw
<1>16. ASSUME NEW w \in Workers, Dies(w) PROVE QueueType'
    BY <1>16 DEF Dies, Throw
<1>17. ASSUME UNCHANGED vars PROVE QueueType'
    BY <1>17 DEF vars, pageVars, queueVars, handlerVars, billingVars
<1> HIDE DEF QueueType
<1> QED
  BY <1>1, <1>2, <1>3, <1>4, <1>5, <1>6, <1>7, <1>8, <1>9, <1>10, <1>11, <1>12, <1>13, <1>14,
     <1>15, <1>16, <1>17
  DEF Next, HandlerStep

-----------------------------------------------------------------------------
(* What a step of an invocation does to invocations. *)

OthersStay(w) == \A v \in Workers \ {w} :
    batch'[v] = batch[v] /\ at'[v] = at[v] /\ step'[v] = step[v]

\* An invocation goes on with its batch, or lets it go.
Advances(w) ==
    /\ HandlerType' /\ OthersStay(w)
    /\ batch'[w] = batch[w] \/ batch'[w] = <<>>

\* Goto keeps the invocation at its record.
LEMMA GotoAdvances ==
    ASSUME HandlerType, NEW w \in Workers, at[w] \in DOMAIN batch[w],
           NEW s \in Steps \ {"idle"}, Goto(w, s)
    PROVE  Advances(w) /\ batch' = batch /\ at' = at /\ step'[w] = s
<1>1. step' = [step EXCEPT ![w] = s] /\ batch' = batch /\ at' = at
    BY DEF Goto
<1>2. batch[w] # <<>>
    BY DEF HandlerType
<1> QED BY <1>1, <1>2 DEF Advances, OthersStay, HandlerType

\* GotoRecord takes it to another record, or past the last.
LEMMA GotoRecordAdvances ==
    ASSUME HandlerType, NEW w \in Workers, at[w] \in DOMAIN batch[w],
           NEW i \in 1..(Len(batch[w]) + 1), GotoRecord(w, i)
    PROVE  Advances(w) /\ batch' = batch /\ at'[w] = i /\ step'[w] = "record"
<1>1. step' = [step EXCEPT ![w] = "record"] /\ batch' = batch /\ at' = [at EXCEPT ![w] = i]
    BY DEF GotoRecord
<1>2. batch[w] # <<>> /\ Len(batch[w]) \in Nat /\ i \in Nat /\ "record" \in Steps
    BY DEF HandlerType, Steps
<1>3. HandlerType'
    <2>1. at' \in [Workers -> Nat] /\ step' \in [Workers -> Steps] /\ batch' \in [Workers -> Seq(Messages)]
        BY <1>1, <1>2 DEF HandlerType
    <2>2. ASSUME NEW v \in Workers PROVE at'[v] <= Len(batch'[v]) + 1 /\ (step'[v] = "idle" <=> batch'[v] = <<>>)
        <3>1. CASE v = w
            BY <3>1, <1>1, <1>2 DEF HandlerType
        <3>2. CASE v # w
            BY <3>2, <1>1 DEF HandlerType
        <3> QED BY <3>1, <3>2
    <2> QED BY <2>1, <2>2 DEF HandlerType
<1> QED BY <1>1, <1>3 DEF Advances, OthersStay, HandlerType

\* Release ends it.
LEMMA ReleaseAdvances ==
    ASSUME HandlerType, NEW w \in Workers, Release(w)
    PROVE  Advances(w) /\ batch'[w] = <<>> /\ step'[w] = "idle"
<1>1. step' = [step EXCEPT ![w] = "idle"] /\ batch' = [batch EXCEPT ![w] = <<>>] /\ at' = [at EXCEPT ![w] = 0]
    BY DEF Release
<1>2. <<>> \in Seq(Messages) /\ Len(<<>>) = 0 /\ "idle" \in Steps
    BY DEF Steps
<1>3. HandlerType'
    BY <1>1, <1>2 DEF HandlerType
<1> QED BY <1>1, <1>3 DEF Advances, OthersStay, HandlerType

\* Where the steps of the handler lead.
LEMMA HandlerAdvances ==
    ASSUME HandlerType, NEW w \in Workers, HandlerStep(w) \/ Dies(w)
    PROVE  /\ Advances(w) /\ pending' \subseteq pending
           /\ UNCHANGED <<open, sent, named, receives, dead>>
<1> USE DEF Steps, HandlerAt, queueVars, pageVars
<1>1. CASE EndLoop(w)
    BY <1>1, ReleaseAdvances DEF EndLoop, Return
<1>2. CASE PutLedger(w)
    BY <1>2, GotoAdvances DEF PutLedger, PassUnchecked
<1>3. CASE Increment(w)
    BY <1>3, GotoAdvances DEF Increment, PassUnchecked
<1>4. CASE ReadCount(w)
    BY <1>4, GotoAdvances DEF ReadCount, Pass, PassUnchecked
<1>5. CASE Invoke(w)
    BY <1>5, GotoAdvances DEF Invoke
<1>6. CASE StreamChunks(w)
    BY <1>6, GotoAdvances DEF StreamChunks
<1>7. ASSUME at[w] \in DOMAIN batch[w] PROVE at[w] \in Nat /\ Len(batch[w]) \in Nat /\ at[w] + 1 \in 1..(Len(batch[w]) + 1)
    BY <1>7 DEF HandlerType
<1>8. CASE SendEnd(w)
    BY <1>7, <1>8, GotoAdvances, GotoRecordAdvances DEF SendEnd
<1>9. CASE Refuse(w)
    BY <1>7, <1>9, GotoAdvances, GotoRecordAdvances DEF Refuse
<1>10. CASE SendErrorMessage(w)
    <2>1. UNCHANGED <<open, sent, named>> /\ UNCHANGED <<pending, receives, dead>>
        BY <1>10 DEF SendErrorMessage, Throw
    <2>2. CASE Throw(w)
        BY <2>1, <2>2, ReleaseAdvances DEF Throw
    <2>3. CASE \E i \in (at[w] + 1)..(Len(batch[w]) + 1) : GotoRecord(w, i)
        <3>1. PICK i \in (at[w] + 1)..(Len(batch[w]) + 1) : GotoRecord(w, i)
            BY <2>3
        <3>2. at[w] \in DOMAIN batch[w]
            BY <1>10 DEF SendErrorMessage
        <3>3. i \in 1..(Len(batch[w]) + 1)
            BY <1>7, <3>2
        <3> QED BY <2>1, <3>1, <3>2, <3>3, GotoRecordAdvances
    <2> QED BY <1>10, <2>2, <2>3 DEF SendErrorMessage
<1>11. CASE Dies(w)
    BY <1>11, ReleaseAdvances DEF Dies, Throw
<1> QED BY <1>1, <1>2, <1>3, <1>4, <1>5, <1>6, <1>8, <1>9, <1>10, <1>11 DEF HandlerStep


\* A batch that is handed out is of messages in the queue that nobody has in hand.
LEMMA ReceiveTakes ==
    ASSUME HandlerType, QueueType, NEW w \in Workers, Receive(w)
    PROVE  \E b \in Batches :
               /\ batch' = [batch EXCEPT ![w] = b] /\ b \in Seq(Messages) /\ Len(b) >= 1
               /\ at' = [at EXCEPT ![w] = 1] /\ step' = [step EXCEPT ![w] = "record"]
               /\ \A m \in Messages : m \notin Elements(b) => receives'[m] = receives[m]
               /\ \A i \in DOMAIN b : b[i] \in pending /\ b[i] \notin InHand
<1>1. PICK b \in Batches :
          /\ batch' = [batch EXCEPT ![w] = b]
          /\ receives' = [m \in Messages |-> receives[m] + IF m \in Elements(b) THEN 1 ELSE 0]
    BY DEF Receive
<1>2. PICK n \in 1..MaxBatch : b \in [1..n -> pending]
    BY DEF Batches
<1>3. n \in Nat /\ n >= 1
    BY ChatAssumption
<1>4. DOMAIN b = 1..n /\ b \in Seq(Messages) /\ Len(b) = n
    BY <1>2, <1>3 DEF QueueType
<1>5. \A i \in DOMAIN b : b[i] \in pending /\ b[i] \in Elements(b)
    BY <1>2 DEF Elements
<1>6. \A i \in DOMAIN b : b[i] \notin InHand
    <2> TAKE i \in DOMAIN b
    <2>1. Conn(b[i]) \notin Locked
        BY <1>5 DEF Batches
    <2> QED BY <2>1 DEF Locked
<1>7. at' = [at EXCEPT ![w] = 1] /\ step' = [step EXCEPT ![w] = "record"]
    BY DEF Receive
<1>8. \A m \in Messages : m \notin Elements(b) => receives'[m] = receives[m]
    BY <1>1 DEF QueueType
<1> QED BY <1>1, <1>3, <1>4, <1>5, <1>6, <1>7, <1>8

\* Invocations keep their types.
LEMMA HandlerTypeStep == QueueType /\ HandlerType /\ [Next]_vars => HandlerType'
<1> SUFFICES ASSUME QueueType, HandlerType, [Next]_vars PROVE HandlerType'
    OBVIOUS
<1>1. CASE UNCHANGED handlerVars
    BY <1>1 DEF handlerVars, HandlerType
<1>2. ASSUME NEW w \in Workers, Receive(w) PROVE HandlerType'
    <2>1. PICK b \in Seq(Messages) : /\ batch' = [batch EXCEPT ![w] = b] /\ Len(b) >= 1
               /\ at' = [at EXCEPT ![w] = 1] /\ step' = [step EXCEPT ![w] = "record"]
        BY <1>2, ReceiveTakes
    <2>2. b # <<>> /\ Len(b) \in Nat /\ "record" \in Steps
        BY <2>1 DEF Steps
    <2>3. batch' \in [Workers -> Seq(Messages)] /\ at' \in [Workers -> Nat] /\ step' \in [Workers -> Steps]
        BY <2>1, <2>2 DEF HandlerType
    <2>4. ASSUME NEW v \in Workers PROVE at'[v] <= Len(batch'[v]) + 1 /\ (step'[v] = "idle" <=> batch'[v] = <<>>)
        <3>1. CASE v = w
            BY <3>1, <2>1, <2>2 DEF HandlerType
        <3>2. CASE v # w
            BY <3>2, <2>1 DEF HandlerType
        <3> QED BY <3>1, <3>2
    <2> QED BY <2>3, <2>4 DEF HandlerType
<1>3. ASSUME NEW w \in Workers, HandlerStep(w) \/ Dies(w) PROVE HandlerType'
    BY <1>3, HandlerAdvances DEF Advances
<1>4. ASSUME NEW c \in Conns, Send(c) \/ ResetChat(c) \/ ResponseTimeout(c) \/ Close(c) PROVE UNCHANGED handlerVars
    BY <1>4 DEF Send, ResetChat, ResponseTimeout, Close
<1>5. ASSUME NEW m \in Messages, DeadLetter(m) PROVE UNCHANGED handlerVars
    BY <1>5 DEF DeadLetter
<1>6. ASSUME UNCHANGED vars PROVE UNCHANGED handlerVars
    BY <1>6 DEF vars
<1> QED BY <1>1, <1>2, <1>3, <1>4, <1>5, <1>6 DEF Next

\* What was sent stays sent.
LEMMA SentStays ==
    ASSUME PageType, NEW c \in Conns, Send(c), NEW m \in Messages, Sent(m)
    PROVE  Sent(m)'
<1>1. sent' = [sent EXCEPT ![c] = sent[c] + 1]
    BY DEF Send
<1>2. Conn(m) \in Conns /\ Turn(m) \in Nat
    BY MessageShape
<1>3. sent'[Conn(m)] = IF Conn(m) = c THEN sent[Conn(m)] + 1 ELSE sent[Conn(m)]
    BY <1>1, <1>2 DEF PageType
<1>4. sent[Conn(m)] \in Nat
    BY <1>2 DEF PageType
<1> QED BY <1>2, <1>3, <1>4 DEF Sent

\* Hands stay apart, and full of what was sent.
LEMMA HandsStep == PageType /\ QueueType /\ HandlerType /\ HandsInv /\ [Next]_vars => HandsInv'
<1> SUFFICES ASSUME PageType, QueueType, HandlerType, HandsInv, [Next]_vars PROVE HandsInv'
    OBVIOUS
<1>1. ASSUME NEW c \in Conns, Send(c) PROVE HandsInv'
    <2>1. PICK n \in Messages : n = <<c, sent[c] + 1>> /\ Conn(n) = c /\ Turn(n) = sent[c] + 1 /\ sent[c] \in Nat
        BY <1>1, NewMessage
    <2>2. pending' = pending \cup {n} /\ UNCHANGED <<dead, batch>> /\ sent' = [sent EXCEPT ![c] = sent[c] + 1]
        BY <1>1, <2>1 DEF Send, handlerVars
    <2>3. Sent(n)'
        BY <2>1, <2>2 DEF Sent, PageType
    <2>4. \A m \in pending' \cup dead' : Sent(m)'
        BY <1>1, <2>2, <2>3, SentStays DEF HandsInv, QueueType
    <2>5. \A w \in Workers : \A i \in DOMAIN batch[w] : batch[w][i] \in Messages
        BY DEF HandlerType
    <2>6. \A w \in Workers : \A i \in DOMAIN batch'[w] : Sent(batch[w][i])'
        BY <1>1, <2>2, <2>5, SentStays DEF HandsInv
    <2> QED BY <2>2, <2>4, <2>6 DEF HandsInv, Sent
<1>2. ASSUME NEW m \in Messages, DeadLetter(m) PROVE HandsInv'
    BY <1>2 DEF DeadLetter, HandsInv, Sent, handlerVars, pageVars
<1>3. ASSUME NEW w \in Workers, Receive(w) PROVE HandsInv'
    <2>1. PICK b \in Seq(Messages) :
              /\ batch' = [batch EXCEPT ![w] = b]
              /\ \A i \in DOMAIN b : b[i] \in pending /\ b[i] \notin InHand
        BY <1>3, ReceiveTakes
    <2>2. UNCHANGED <<sent, pending, dead>>
        BY <1>3 DEF Receive, pageVars
    <2>3. \A v \in Workers : v # w => \A i \in DOMAIN batch[v], j \in DOMAIN b : batch[v][i] # b[j]
        BY <2>1 DEF InHand, Elements
    <2>4. batch'[w] = b /\ \A v \in Workers : v # w => batch'[v] = batch[v]
        BY <2>1 DEF HandlerType
    <2>5. \A m \in pending' \cup dead' : Sent(m)'
        BY <2>2 DEF HandsInv, Sent
    <2>6. \A v \in Workers : \A i \in DOMAIN batch'[v] : Sent(batch'[v][i])
        BY <2>1, <2>4 DEF HandsInv
    <2>7. \A v, u \in Workers : \A i \in DOMAIN batch'[v], j \in DOMAIN batch'[u] :
              batch'[v][i] = batch'[u][j] => v = u
        BY <2>3, <2>4 DEF HandsInv
    <2> QED BY <2>2, <2>5, <2>6, <2>7 DEF HandsInv, Sent
<1>4. ASSUME NEW w \in Workers, HandlerStep(w) \/ Dies(w) PROVE HandsInv'
    <2>1. Advances(w) /\ pending' \subseteq pending /\ UNCHANGED <<sent, dead>>
        BY <1>4, HandlerAdvances
    <2>2. \A v \in Workers : batch'[v] = batch[v] \/ batch'[v] = <<>>
        BY <2>1 DEF Advances, OthersStay
    <2>3. DOMAIN <<>> = {}
        OBVIOUS
    <2>4. \A v \in Workers : \A i \in DOMAIN batch'[v] : batch'[v] = batch[v]
        BY <2>2, <2>3
    <2>5. \A m \in pending' \cup dead' : Sent(m)
        BY <2>1 DEF HandsInv
    <2>6. \A v \in Workers : \A i \in DOMAIN batch'[v] : Sent(batch'[v][i])
        BY <2>4 DEF HandsInv
    <2>7. \A v, u \in Workers : \A i \in DOMAIN batch'[v], j \in DOMAIN batch'[u] :
              batch'[v][i] = batch'[u][j] => v = u
        BY <2>4 DEF HandsInv
    <2> QED BY <2>1, <2>5, <2>6, <2>7 DEF HandsInv, Sent
<1>5. CASE UNCHANGED <<sent, queueVars, handlerVars>>
    BY <1>5 DEF HandsInv, Sent, queueVars, handlerVars
<1>6. ASSUME NEW c \in Conns, ResetChat(c) \/ ResponseTimeout(c) \/ Close(c) PROVE UNCHANGED <<sent, queueVars, handlerVars>>
    BY <1>6 DEF ResetChat, ResponseTimeout, Close
<1>7. ASSUME UNCHANGED vars PROVE UNCHANGED <<sent, queueVars, handlerVars>>
    BY <1>7 DEF vars, pageVars
<1> QED BY <1>1, <1>2, <1>3, <1>4, <1>5, <1>6, <1>7 DEF Next


-----------------------------------------------------------------------------
(* Counting. *)

BillingInv == BillingType /\ LedgerInv /\ CountingInv /\ QuotaInv

Context == PageType /\ QueueType /\ HandlerType /\ HandsInv

\* The billing table is as it was, and so is what was sent.
BillingStays == UNCHANGED <<ledger, sessionCount, charges, served, unchecked, readded>>

\* What a session's way past the quota adds to those that a true count let pass.
LEMMA PassChecks ==
    ASSUME BillingType, NEW w \in Workers, NEW s \in Sessions, Pass(w, s)
    PROVE  /\ Checked' = Checked \cup {s}
           /\ served' \subseteq Sessions /\ unchecked' \subseteq served'
BY DEF BillingType, Pass, Checked

LEMMA PassUncheckedChecks ==
    ASSUME BillingType, NEW w \in Workers, NEW s \in Sessions, PassUnchecked(w, s)
    PROVE  Checked' = Checked /\ served' \subseteq Sessions /\ unchecked' \subseteq served'
<1>1. unchecked \subseteq served /\ served \subseteq Sessions /\ served' = served \cup {s}
    BY DEF BillingType, PassUnchecked
<1>2. CASE s \in served
    BY <1>1, <1>2 DEF PassUnchecked, Checked
<1>3. CASE s \notin served
    BY <1>1, <1>3 DEF PassUnchecked, Checked
<1> QED BY <1>2, <1>3

LEMMA NoPassChecks ==
    ASSUME BillingType, NoPass
    PROVE  Checked' = Checked /\ served' \subseteq Sessions /\ unchecked' \subseteq served'
BY DEF BillingType, NoPass, Checked

\* Only who counts what may then have changed.
LEMMA BillingUnread ==
    ASSUME Context, BillingInv, BillingStays, UNCHANGED <<sent, named>>, CountingInv'
    PROVE  BillingInv'
<1>1. BillingType' /\ QuotaInv'
    BY DEF BillingInv, BillingStays, BillingType, QuotaInv, QuotaHolds, Checked, Charged
<1>2. LedgerInv'
    BY DEF BillingInv, BillingStays, LedgerInv, Checked, Sent
<1> QED BY <1>1, <1>2 DEF BillingInv

\* An invocation that neither moves nor loses its row goes on counting.
LEMMA CountsStays ==
    ASSUME NEW v \in Workers, Counts(v), batch'[v] = batch[v], at'[v] = at[v], step'[v] = step[v],
           at[v] \in DOMAIN batch[v] =>
               /\ Session(Current(v))' = Session(Current(v))
               /\ ledger \subseteq ledger'
               /\ step[v] = "increment" =>
                      /\ Session(Current(v)) \notin Checked => Session(Current(v)) \notin Checked'
                      /\ charges'[Session(Current(v))] = charges[Session(Current(v))]
    PROVE  Counts(v)'
BY DEF Counts

\* The session that an invocation handles stays the same while its message is in hand.
LEMMA SessionStays ==
    ASSUME NEW v \in Workers, batch'[v] = batch[v], at'[v] = at[v],
           UNCHANGED named, receives'[Current(v)] = receives[Current(v)]
    PROVE  Session(Current(v))' = Session(Current(v))
BY DEF Session, Current

\* Two invocations handle sessions of different messages.
LEMMA OtherSession ==
    ASSUME HandsInv, NEW v \in Workers, NEW w \in Workers, v # w,
           at[v] \in DOMAIN batch[v], at[w] \in DOMAIN batch[w]
    PROVE  Session(Current(v)) # Session(Current(w))
<1>1. batch[v][at[v]] # batch[w][at[w]]
    BY DEF HandsInv
<1> QED BY <1>1 DEF Session, Current


\* A new row changes neither the count nor what passed the quota.
LEMMA PutLedgerBilling ==
    ASSUME Context, BillingInv, NEW w \in Workers, PutLedger(w)
    PROVE  BillingInv'
<1> DEFINE s == Session(Current(w))
<1>1. at[w] \in DOMAIN batch[w] /\ step[w] = "record"
    BY DEF PutLedger, HandlerAt
<1>2. Current(w) \in Messages /\ Current(w) = batch[w][at[w]]
    BY <1>1, CurrentShape DEF Context
<1>3. s \in Sessions /\ s[1] = Current(w) /\ (Current(w) \in named => s[2] = 0)
    BY <1>2, SessionShape DEF Context
<1>4. Sent(Current(w))
    BY <1>1, <1>2 DEF Context, HandsInv
<1>5. /\ UNCHANGED <<sessionCount, charges, readded>> /\ UNCHANGED <<sent, named, receives>>
      /\ batch' = batch /\ at' = at
    BY DEF PutLedger, Goto, PassUnchecked, pageVars, queueVars
<1>15. Checked' = Checked /\ served' \subseteq Sessions /\ unchecked' \subseteq served'
    <2>1. NoPass \/ PassUnchecked(w, s)
        BY DEF PutLedger
    <2> QED BY <1>3, <2>1, NoPassChecks, PassUncheckedChecks DEF BillingInv
<1>6. ledger' = ledger \/ (s \notin ledger /\ ledger' = ledger \cup {s})
    BY DEF PutLedger
<1>7. step'[w] = "increment" => s \notin ledger /\ s \in ledger'
    BY <1>1, GotoAdvances DEF PutLedger, PassUnchecked, Context, Steps
<1>8. step'[w] = "readCount" => s \in ledger'
    BY <1>1, GotoAdvances DEF PutLedger, PassUnchecked, Context, Steps
<1>9. OthersStay(w)
    BY HandlerAdvances DEF Context, HandlerStep, Advances
<1>10. Session(Current(w))' = s
    BY <1>5 DEF Session, Current
<1> HIDE DEF s
<1>11. BillingType' /\ QuotaInv'
    BY <1>3, <1>5, <1>6, <1>15 DEF BillingInv, BillingType, QuotaInv, QuotaHolds, Charged
<1>12. LedgerInv'
    <2>1. \A t \in ledger' : Sent(t[1]) /\ (t[1] \in named => t[2] = 0)
        BY <1>3, <1>4, <1>6 DEF BillingInv, LedgerInv
    <2> QED BY <1>5, <1>6, <1>15, <2>1 DEF BillingInv, LedgerInv, Sent
<1>13. Counts(w)'
    <2>1. s \notin ledger => s \notin Checked /\ charges[s] = 0
        BY <1>3 DEF BillingInv, BillingType, LedgerInv
    <2>2. step'[w] = "increment" => s \in ledger' /\ s \notin Checked' /\ charges'[s] = 0
        BY <1>5, <1>7, <1>15, <2>1
    <2> QED BY <1>8, <1>10, <2>2 DEF Counts
<1>14. ASSUME NEW v \in Workers, v # w PROVE Counts(v)'
    <2>1. batch'[v] = batch[v] /\ at'[v] = at[v] /\ step'[v] = step[v]
        BY <1>9, <1>14 DEF OthersStay
    <2>2. Session(Current(v))' = Session(Current(v))
        BY <1>5, <2>1, SessionStays
    <2>3. ledger \subseteq ledger'
        BY <1>6
    <2> QED BY <1>5, <1>15, <2>1, <2>2, <2>3, CountsStays DEF BillingInv, CountingInv
<1> QED BY <1>11, <1>12, <1>13, <1>14 DEF BillingInv, CountingInv

\* An increment counts a session that was not, at least once.
LEMMA IncrementBilling ==
    ASSUME Context, BillingInv, NEW w \in Workers, Increment(w)
    PROVE  BillingInv'
<1> DEFINE s == Session(Current(w))
<1>1. at[w] \in DOMAIN batch[w] /\ step[w] = "increment"
    BY DEF Increment, HandlerAt
<1>2. Current(w) \in Messages
    BY <1>1, CurrentShape DEF Context
<1>3. s \in Sessions
    BY <1>2, SessionShape DEF Context
<1>4. s \in ledger /\ s \notin Checked /\ charges[s] = 0
    BY <1>1 DEF BillingInv, CountingInv, Counts
<1>5. /\ ledger' = ledger /\ UNCHANGED <<sent, named, receives>>
      /\ batch' = batch /\ at' = at
    BY DEF Increment, Goto, PassUnchecked, pageVars, queueVars
<1>17. Checked' = Checked /\ served' \subseteq Sessions /\ unchecked' \subseteq served'
    <2>1. NoPass \/ PassUnchecked(w, s)
        BY DEF Increment
    <2> QED BY <1>3, <2>1, NoPassChecks, PassUncheckedChecks DEF BillingInv
<1>6. \E n \in {0, 1, 2} : /\ sessionCount' = sessionCount + n
                          /\ charges' = [charges EXCEPT ![s] = n]
                          /\ (n = 2 => s \in readded') /\ readded \subseteq readded' /\ readded' \subseteq readded \cup {s}
    <2>1. CASE Add(s, 1) /\ UNCHANGED readded
        BY <2>1, <1>3, <1>4 DEF Add, BillingInv, BillingType
    <2>2. CASE Add(s, 2) /\ readded' = readded \cup {s}
        BY <2>2, <1>3, <1>4 DEF Add, BillingInv, BillingType
    <2>3. CASE UNCHANGED <<sessionCount, charges, readded>>
        BY <2>3, <1>3, <1>4 DEF BillingInv, BillingType
    <2> QED BY <2>1, <2>2, <2>3 DEF Increment
<1>7. step'[w] # "increment"
    BY <1>1, GotoAdvances DEF Increment, PassUnchecked, Context, Steps
<1>8. OthersStay(w)
    BY HandlerAdvances DEF Context, HandlerStep, Advances
<1>9. Session(Current(w))' = s
    BY <1>5 DEF Session, Current
<1>10. \A v \in Workers : v # w /\ at[v] \in DOMAIN batch[v] => Session(Current(v)) # s
    BY <1>1, OtherSession DEF Context
<1> HIDE DEF s
<1>11. PICK n \in {0, 1, 2} : /\ sessionCount' = sessionCount + n
                              /\ charges' = [charges EXCEPT ![s] = n]
                              /\ (n = 2 => s \in readded') /\ readded \subseteq readded' /\ readded' \subseteq readded \cup {s}
    BY <1>6
<1>12. BillingType'
    BY <1>3, <1>5, <1>11, <1>17 DEF BillingInv, BillingType
<1>13. LedgerInv'
    <2>1. \A t \in Sessions : charges'[t] = IF t = s THEN n ELSE charges[t]
        BY <1>3, <1>11 DEF BillingInv, BillingType
    <2>2. \A t \in Sessions : charges'[t] > 0 => t \in ledger
        BY <1>4, <2>1 DEF BillingInv, LedgerInv
    <2>3. \A t \in Sessions : charges'[t] > 1 => t \in readded'
        BY <1>11, <2>1 DEF BillingInv, LedgerInv
    <2> QED BY <1>5, <1>17, <2>2, <2>3 DEF BillingInv, LedgerInv, Sent
<1>14. QuotaInv'
    <2>1. \A t \in Sessions : charges'[t] = IF t = s THEN n ELSE charges[t]
        BY <1>3, <1>11 DEF BillingInv, BillingType
    <2>2. s \notin Charged
        BY <1>4 DEF Charged
    <2>3. Charged' = IF n = 0 THEN Charged ELSE Charged \cup {s}
        BY <1>3, <1>4, <2>1 DEF Charged
    <2>4. IsFiniteSet(Charged) /\ Cardinality(Charged) <= sessionCount /\ sessionCount \in Nat
        BY DEF BillingInv, QuotaInv, BillingType
    <2>5. IsFiniteSet(Charged \cup {s}) /\ Cardinality(Charged \cup {s}) = Cardinality(Charged) + 1 /\ Cardinality(Charged) \in Nat
        BY <2>2, <2>4, FS_AddElement, FS_CardinalityType
    <2>6. IsFiniteSet(Charged') /\ Cardinality(Charged') <= sessionCount'
        BY <1>11, <2>3, <2>4, <2>5
    <2>8. Checked \subseteq Sessions
        BY DEF BillingInv, BillingType, Checked
    <2>7. {t \in Checked' : charges'[t] > 0} = {t \in Checked : charges[t] > 0}
        BY <1>4, <1>17, <2>1, <2>8
    <2> QED BY <2>6, <2>7 DEF BillingInv, QuotaInv, QuotaHolds
<1>15. Counts(w)'
    BY <1>4, <1>5, <1>7, <1>9 DEF Counts
<1>16. ASSUME NEW v \in Workers, v # w PROVE Counts(v)'
    <2>1. batch'[v] = batch[v] /\ at'[v] = at[v] /\ step'[v] = step[v]
        BY <1>8, <1>16 DEF OthersStay
    <2>2. Session(Current(v))' = Session(Current(v))
        BY <1>5, <2>1, SessionStays
    <2>3. ASSUME at[v] \in DOMAIN batch[v] PROVE charges'[Session(Current(v))] = charges[Session(Current(v))]
        <3>1. Session(Current(v)) \in Sessions
            BY <2>3, CurrentShape, SessionShape DEF Context
        <3> QED BY <1>10, <1>11, <1>16, <2>3, <3>1 DEF BillingInv, BillingType
    <2> QED BY <1>5, <1>17, <2>1, <2>2, <2>3, CountsStays DEF BillingInv, CountingInv
<1> QED BY <1>12, <1>13, <1>14, <1>15, <1>16 DEF BillingInv, CountingInv

\* A session passes the quota while all the sessions that are counted, it
\* included, are no more than the tier includes.
LEMMA ReadCountBilling ==
    ASSUME Context, BillingInv, NEW w \in Workers, ReadCount(w)
    PROVE  BillingInv'
<1> DEFINE s == Session(Current(w))
<1>1. at[w] \in DOMAIN batch[w] /\ step[w] = "readCount"
    BY DEF ReadCount, HandlerAt
<1>2. Current(w) \in Messages
    BY <1>1, CurrentShape DEF Context
<1>3. s \in Sessions /\ s \in ledger
    BY <1>1, <1>2, SessionShape DEF Context, BillingInv, CountingInv, Counts
<1>4. /\ UNCHANGED <<ledger, sessionCount, charges, readded>> /\ UNCHANGED <<sent, named, receives>>
      /\ batch' = batch /\ at' = at
    BY DEF ReadCount, Goto, Pass, PassUnchecked, pageVars, queueVars
<1>5. /\ Checked' = Checked \/ (sessionCount <= Included /\ Checked' = Checked \cup {s})
      /\ served' \subseteq Sessions /\ unchecked' \subseteq served'
    <2>1. NoPass \/ PassUnchecked(w, s) \/ (sessionCount <= Included /\ Pass(w, s))
        BY DEF ReadCount
    <2> QED BY <1>3, <2>1, NoPassChecks, PassUncheckedChecks, PassChecks DEF BillingInv
<1>6. step'[w] # "increment" /\ step'[w] # "readCount"
    BY <1>1, GotoAdvances DEF ReadCount, Pass, PassUnchecked, Context, Steps
<1>7. OthersStay(w)
    BY HandlerAdvances DEF Context, HandlerStep, Advances
<1>8. \A v \in Workers : v # w /\ at[v] \in DOMAIN batch[v] => Session(Current(v)) # s
    BY <1>1, OtherSession DEF Context
<1> HIDE DEF s
<1>9. BillingType' /\ LedgerInv'
    BY <1>3, <1>4, <1>5 DEF BillingInv, BillingType, LedgerInv, Sent
<1>10. QuotaInv'
    <2>1. IsFiniteSet(Charged') /\ Cardinality(Charged') <= sessionCount'
        BY <1>4 DEF BillingInv, QuotaInv, Charged
    <2>2. CASE Checked' = Checked
        BY <1>4, <2>1, <2>2 DEF BillingInv, QuotaInv, QuotaHolds
    <2>3. CASE sessionCount <= Included /\ Checked' = Checked \cup {s}
        <3> DEFINE P == {t \in Checked' : charges'[t] > 0}
        <3>1. P \subseteq Charged'
            BY <1>9 DEF BillingType, Charged, Checked
        <3> HIDE DEF P
        <3>2. IsFiniteSet(P) /\ Cardinality(P) <= Cardinality(Charged')
            BY <2>1, <3>1, FS_Subset
        <3>3. Cardinality(P) \in Nat /\ Cardinality(Charged') \in Nat /\ sessionCount \in Nat
            BY <2>1, <3>2, FS_CardinalityType DEF BillingInv, BillingType
        <3>4. Cardinality(P) <= Included
            BY <1>4, <2>1, <2>3, <3>2, <3>3, ChatAssumption
        <3> QED BY <2>1, <3>4 DEF QuotaInv, QuotaHolds, P
    <2> QED BY <1>5, <2>2, <2>3
<1>11. Counts(w)'
    BY <1>6 DEF Counts
<1>12. ASSUME NEW v \in Workers, v # w PROVE Counts(v)'
    <2>1. batch'[v] = batch[v] /\ at'[v] = at[v] /\ step'[v] = step[v]
        BY <1>7, <1>12 DEF OthersStay
    <2>2. Session(Current(v))' = Session(Current(v))
        BY <1>4, <2>1, SessionStays
    <2>3. at[v] \in DOMAIN batch[v] /\ Session(Current(v)) \notin Checked => Session(Current(v)) \notin Checked'
        BY <1>5, <1>8, <1>12
    <2> QED BY <1>4, <2>1, <2>2, <2>3, CountsStays DEF BillingInv, CountingInv
<1> QED BY <1>9, <1>10, <1>11, <1>12 DEF BillingInv, CountingInv


\* Every step keeps the billing invariant.
LEMMA BillingStep == Context /\ BillingInv /\ [Next]_vars => BillingInv'
<1> SUFFICES ASSUME Context, BillingInv, [Next]_vars PROVE BillingInv'
    OBVIOUS
<1>1. ASSUME NEW c \in Conns, Send(c) PROVE BillingInv'
    <2>1. PICK n \in Messages : n = <<c, sent[c] + 1>> /\ ~Sent(n)
        BY <1>1, NewMessage DEF Context
    <2>2. named' = IF c \in known THEN named \cup {n} ELSE named
        BY <1>1, <2>1 DEF Send
    <2>3. BillingStays /\ UNCHANGED <<batch, at, step, receives>>
        BY <1>1 DEF Send, handlerVars, billingVars, BillingStays
    <2>4. BillingType' /\ QuotaInv'
        BY <2>3 DEF BillingInv, BillingStays, BillingType, QuotaInv, QuotaHolds, Checked, Charged
    <2>5. LedgerInv'
        <3>1. ASSUME NEW s \in ledger PROVE Sent(s[1])' /\ (s[1] \in named' => s[2] = 0)
            <4>1. s[1] \in Messages
                BY DEF BillingInv, BillingType, Sessions
            <4>2. Sent(s[1]) /\ (s[1] \in named => s[2] = 0)
                BY DEF BillingInv, LedgerInv
            <4>3. s[1] # n
                BY <2>1, <4>2
            <4> QED BY <1>1, <2>2, <4>1, <4>2, <4>3, SentStays DEF Context
        <3> QED BY <2>3, <3>1 DEF BillingInv, LedgerInv, BillingStays, Checked, Sent
    <2>6. ASSUME NEW v \in Workers PROVE Counts(v)'
        <3>1. ASSUME at[v] \in DOMAIN batch[v] PROVE Session(Current(v))' = Session(Current(v))
            <4>1. Sent(batch[v][at[v]])
                BY <3>1 DEF Context, HandsInv
            <4>2. Current(v) # n
                BY <2>1, <4>1 DEF Current
            <4>3. Current(v) \in named' <=> Current(v) \in named
                BY <2>2, <4>2
            <4> QED BY <2>3, <4>3 DEF Session, Current
        <3> QED BY <2>3, <3>1, CountsStays DEF BillingInv, CountingInv, BillingStays, Checked
    <2> QED BY <2>4, <2>5, <2>6 DEF BillingInv, CountingInv
<1>2. ASSUME NEW w \in Workers, Receive(w) PROVE BillingInv'
    <2>1. PICK b \in Batches :
              /\ batch' = [batch EXCEPT ![w] = b]
              /\ at' = [at EXCEPT ![w] = 1] /\ step' = [step EXCEPT ![w] = "record"]
              /\ \A m \in Messages : m \notin Elements(b) => receives'[m] = receives[m]
              /\ \A i \in DOMAIN b : b[i] \notin InHand
        BY <1>2, ReceiveTakes DEF Context
    <2>2. BillingStays /\ UNCHANGED <<sent, named>>
        BY <1>2 DEF Receive, pageVars, billingVars, BillingStays
    <2>3. Counts(w)'
        <3>1. step'[w] = "record"
            BY <2>1 DEF Context, HandlerType
        <3> QED BY <3>1 DEF Counts
    <2>4. ASSUME NEW v \in Workers, v # w PROVE Counts(v)'
        <3>1. batch'[v] = batch[v] /\ at'[v] = at[v] /\ step'[v] = step[v]
            BY <2>1, <2>4 DEF Context, HandlerType
        <3>2. ASSUME at[v] \in DOMAIN batch[v] PROVE Session(Current(v))' = Session(Current(v))
            <4>1. Current(v) \in Messages /\ Current(v) \in InHand
                BY <3>2, CurrentShape DEF Context, InHand, Elements
            <4>2. Current(v) \notin Elements(b)
                BY <2>1, <4>1 DEF Elements
            <4>3. receives'[Current(v)] = receives[Current(v)]
                BY <2>1, <4>1, <4>2
            <4> QED BY <2>2, <3>1, <4>3, SessionStays
        <3> QED BY <2>2, <3>1, <3>2, CountsStays DEF BillingInv, CountingInv, BillingStays, Checked
    <2> QED BY <2>2, <2>3, <2>4, BillingUnread DEF CountingInv
<1>3. ASSUME NEW w \in Workers,
             EndLoop(w) \/ Invoke(w) \/ StreamChunks(w) \/ SendEnd(w) \/ Refuse(w) \/ SendErrorMessage(w) \/ Dies(w)
      PROVE  BillingInv'
    <2>1. Advances(w) /\ UNCHANGED <<sent, named, receives>>
        BY <1>3, HandlerAdvances DEF Context, HandlerStep
    <2>2. BillingStays
        BY <1>3
        DEF EndLoop, Invoke, StreamChunks, SendEnd, Refuse, SendErrorMessage, Dies, billingVars,
            BillingStays
    <2>3. \E s \in Steps \ {"increment", "readCount"} : step' = [step EXCEPT ![w] = s]
        BY <1>3 DEF EndLoop, Return, Invoke, StreamChunks, SendEnd, Refuse, SendErrorMessage, Dies,
                    Throw, Release, Goto, GotoRecord, Steps
    <2>4. Counts(w)'
        <3>1. step'[w] # "increment" /\ step'[w] # "readCount"
            BY <2>3 DEF Context, HandlerType
        <3> QED BY <3>1 DEF Counts
    <2>5. ASSUME NEW v \in Workers, v # w PROVE Counts(v)'
        <3>1. batch'[v] = batch[v] /\ at'[v] = at[v] /\ step'[v] = step[v]
            BY <2>1, <2>5 DEF Advances, OthersStay
        <3>2. Session(Current(v))' = Session(Current(v))
            BY <2>1, <3>1, SessionStays
        <3> QED BY <2>2, <3>1, <3>2, CountsStays DEF BillingInv, CountingInv, BillingStays, Checked
    <2> QED BY <2>1, <2>2, <2>4, <2>5, BillingUnread DEF CountingInv
<1>4. CASE BillingStays /\ UNCHANGED <<sent, named, receives, batch, at, step>>
    <2>1. CountingInv'
        BY <1>4 DEF BillingInv, CountingInv, Counts, Session, Current, BillingStays, Checked
    <2> QED BY <1>4, <2>1, BillingUnread
<1>5. ASSUME NEW c \in Conns, ResetChat(c) \/ ResponseTimeout(c) \/ Close(c)
      PROVE  BillingStays /\ UNCHANGED <<sent, named, receives, batch, at, step>>
    BY <1>5 DEF ResetChat, ResponseTimeout, Close, queueVars, handlerVars, billingVars, BillingStays
<1>6. ASSUME NEW m \in Messages, DeadLetter(m)
      PROVE  BillingStays /\ UNCHANGED <<sent, named, receives, batch, at, step>>
    BY <1>6 DEF DeadLetter, pageVars, handlerVars, billingVars, BillingStays
<1>7. ASSUME UNCHANGED vars PROVE BillingStays /\ UNCHANGED <<sent, named, receives, batch, at, step>>
    BY <1>7 DEF vars, pageVars, queueVars, handlerVars, billingVars, BillingStays
<1> QED
  BY <1>1, <1>2, <1>3, <1>4, <1>5, <1>6, <1>7, PutLedgerBilling, IncrementBilling, ReadCountBilling
        DEF Next, HandlerStep


-----------------------------------------------------------------------------
(* Answers. *)

\* An invocation passes no record that it has not answered or given up, and
\* answers only the current one.
Answers(w) ==
    /\ told \subseteq told' /\ aside \subseteq aside'
    /\ told' # told => at[w] \in DOMAIN batch[w] /\ told' = told \cup {Current(w)}
    /\ \A j \in DOMAIN batch'[w] : j >= at[w] /\ j < at'[w] => batch[w][j] \in told' \cup aside'

\* Every step of the handler does.
LEMMA HandlerAnswers ==
    ASSUME Context, NEW w \in Workers, HandlerStep(w) \/ Dies(w)
    PROVE  Answers(w)
<1> USE DEF Context, HandlerAt
<1>1. DOMAIN <<>> = {}
    OBVIOUS
<1>2. ASSUME Release(w), UNCHANGED told, aside \subseteq aside' PROVE Answers(w)
    BY <1>1, <1>2, ReleaseAdvances DEF Answers
<1>3. ASSUME at'[w] = at[w], UNCHANGED <<told, aside>> PROVE Answers(w)
    <2>1. \A j \in DOMAIN batch'[w] : ~(j >= at[w] /\ j < at'[w])
        <3>1. batch'[w] \in Seq(Messages)
            BY HandlerAdvances DEF Advances, HandlerType
        <3>2. DOMAIN batch'[w] \subseteq Nat
            BY <3>1
        <3> QED BY <1>3, <3>2 DEF HandlerType
    <2> QED BY <1>3, <2>1 DEF Answers
<1>4. ASSUME at[w] \in DOMAIN batch[w], at'[w] = at[w] + 1, told' = told \cup {Current(w)}, UNCHANGED aside
      PROVE  Answers(w)
    <2>1. \A j \in Nat : j >= at[w] /\ j < at[w] + 1 => j = at[w]
        BY DEF HandlerType
    <2>2. DOMAIN batch'[w] \subseteq Nat
        <3>1. batch'[w] \in Seq(Messages)
            BY HandlerAdvances DEF Advances, HandlerType
        <3> QED BY <3>1
    <2> QED BY <1>4, <2>1, <2>2 DEF Answers, Current
<1>5. CASE EndLoop(w)
    BY <1>2, <1>5 DEF EndLoop, Return
<1>6. CASE PutLedger(w) \/ Increment(w) \/ ReadCount(w) \/ Invoke(w)
    BY <1>3, <1>6 DEF PutLedger, Increment, ReadCount, Pass, PassUnchecked, Invoke, Goto
<1>7. CASE StreamChunks(w)
    BY <1>3, <1>7 DEF StreamChunks, Goto, ShowContent, ShowNothing
<1>8. ASSUME at[w] \in DOMAIN batch[w], GotoRecord(w, at[w] + 1) PROVE at'[w] = at[w] + 1
    BY <1>8 DEF GotoRecord, HandlerType
<1>9. CASE SendEnd(w)
    BY <1>3, <1>4, <1>8, <1>9 DEF SendEnd, Goto, ShowEnd, ShowNothing
<1>10. CASE Refuse(w)
    BY <1>3, <1>4, <1>8, <1>10 DEF Refuse, Goto, ShowEnd, ShowContent, ShowNothing
<1>11. CASE SendErrorMessage(w)
    <2>1. CASE Throw(w) /\ UNCHANGED aside /\ UNCHANGED told
        BY <1>2, <2>1 DEF Throw
    <2>2. CASE ShowEnd(Current(w)) /\ \E i \in (at[w] + 1)..(Len(batch[w]) + 1) :
              aside' = aside \cup {batch[w][j] : j \in at[w]..(i - 1)} /\ GotoRecord(w, i)
        <3>1. PICK i \in (at[w] + 1)..(Len(batch[w]) + 1) :
                  aside' = aside \cup {batch[w][j] : j \in at[w]..(i - 1)} /\ GotoRecord(w, i)
            BY <2>2
        <3>2. at[w] \in DOMAIN batch[w] /\ batch[w] \in Seq(Messages) /\ at[w] \in Nat
            BY <1>11 DEF SendErrorMessage, HandlerType
        <3>3. at'[w] = i /\ batch' = batch /\ i \in Nat
            BY <3>1, <3>2 DEF GotoRecord, HandlerType
        <3>4. \A j \in DOMAIN batch[w] : j >= at[w] /\ j < i => j \in at[w]..(i - 1)
            BY <3>2, <3>3
        <3> QED BY <2>2, <3>1, <3>2, <3>3, <3>4 DEF Answers, ShowEnd
    <2> QED BY <1>11, <2>1, <2>2 DEF SendErrorMessage, ShowError, ShowNothing
<1>12. CASE Dies(w)
    BY <1>2, <1>12 DEF Dies, Throw
<1> QED BY <1>5, <1>6, <1>7, <1>9, <1>10, <1>11, <1>12 DEF HandlerStep

\* A message leaves the queue when its invocation returns, answered or given up.
LEMMA ReturnSettles ==
    ASSUME Context, BehindInv, NEW w \in Workers, HandlerStep(w) \/ Dies(w),
           NEW m \in pending, m \notin pending'
    PROVE  Answered(m)'
<1>1. EndLoop(w)
    BY DEF HandlerStep, EndLoop, PutLedger, Increment, ReadCount, Invoke, StreamChunks, SendEnd,
           Refuse,
           SendErrorMessage, Dies, Throw, queueVars
<1>2. PICK j \in DOMAIN batch[w] : m = batch[w][j]
    BY <1>1 DEF EndLoop, Return, Elements
<1>3. j \in Nat /\ at[w] \in Nat /\ j <= Len(batch[w]) /\ Len(batch[w]) \in Nat
    BY <1>2 DEF Context, HandlerType
<1>4. told' = told /\ open' = open /\ aside \subseteq aside'
    BY <1>1 DEF EndLoop, pageVars
<1>5. CASE j < at[w]
    BY <1>2, <1>4, <1>5 DEF BehindInv, Answered
<1>6. CASE at[w] \in DOMAIN batch[w] /\ j >= at[w]
    <2>1. m \in Rest(w)
        BY <1>2, <1>6 DEF Rest
    <2>2. aside' = aside \cup Rest(w)
        BY <1>1, <1>3, <1>6 DEF EndLoop, Context, HandlerType
    <2> QED BY <1>4, <2>1, <2>2 DEF Answered
<1> QED BY <1>1, <1>3, <1>5, <1>6 DEF EndLoop

\* Invocations keep their order and leave answers behind.
LEMMA BehindStep == Context /\ BehindInv /\ [Next]_vars => BehindInv'
<1> SUFFICES ASSUME Context, BehindInv, [Next]_vars PROVE BehindInv'
    OBVIOUS
<1>1. ASSUME NEW c \in Conns, Send(c) PROVE BehindInv'
    <2>1. PICK n \in Messages : n = <<c, sent[c] + 1>> /\ ~Sent(n) /\ Conn(n) = c /\ Turn(n) = sent[c] + 1 /\ sent[c] \in Nat
        BY <1>1, NewMessage DEF Context
    <2>2. pending' = pending \cup {n} /\ UNCHANGED <<open, told, aside, batch, at>>
        BY <1>1, <2>1 DEF Send, handlerVars
    <2>3. ASSUME NEW m \in Messages, Sent(m), Conn(m) = c PROVE ~(Turn(n) < Turn(m))
        BY <2>1, <2>3, MessageShape DEF Sent
    <2>4. \A w \in Workers : \A j \in DOMAIN batch[w] : Sent(batch[w][j]) /\ batch[w][j] \in Messages
        BY DEF Context, HandsInv, HandlerType
    <2> QED BY <2>1, <2>2, <2>3, <2>4 DEF BehindInv, Answered
<1>2. ASSUME NEW c \in Conns, Close(c) PROVE BehindInv'
    BY <1>2 DEF Close, BehindInv, Answered, queueVars, handlerVars
<1>3. ASSUME NEW m \in Messages, DeadLetter(m) PROVE BehindInv'
    BY <1>3 DEF DeadLetter, BehindInv, Answered, pageVars, handlerVars
<1>4. ASSUME NEW w \in Workers, Receive(w) PROVE BehindInv'
    <2>1. PICK b \in Batches :
              /\ batch' = [batch EXCEPT ![w] = b] /\ b \in Seq(Messages)
              /\ at' = [at EXCEPT ![w] = 1]
              /\ \A i \in DOMAIN b : b[i] \in pending
        BY <1>4, ReceiveTakes DEF Context
    <2>2. UNCHANGED <<open, told, aside, pending>>
        BY <1>4 DEF Receive, pageVars
    <2>3. batch'[w] = b /\ at'[w] = 1 /\ \A v \in Workers : v # w => batch'[v] = batch[v] /\ at'[v] = at[v]
        BY <2>1 DEF Context, HandlerType
    <2>4. ASSUME NEW j \in DOMAIN b, NEW m \in pending, Conn(m) = Conn(b[j]), Turn(m) < Turn(b[j])
          PROVE  \E i \in DOMAIN b : i < j /\ b[i] = m
        <3>1. m \in Elements(b)
            BY <2>1, <2>4 DEF Batches, Elements
        <3>2. PICK i \in DOMAIN b : b[i] = m
            BY <3>1 DEF Elements
        <3>3. \A k, l \in DOMAIN b : k < l /\ Conn(b[k]) = Conn(b[l]) => Turn(b[k]) < Turn(b[l])
            BY <2>1 DEF Batches
        <3>4. i \in Nat /\ j \in Nat
            BY <2>1, <3>2
        <3>5. b[i] \in Messages /\ b[j] \in Messages
            BY <2>1, <3>2
        <3>6. Turn(b[i]) \in Nat /\ Turn(b[j]) \in Nat
            BY <3>5, MessageShape
        <3>7. i # j /\ ~(j < i)
            BY <2>4, <3>2, <3>3, <3>6
        <3> QED BY <3>2, <3>4, <3>7
    <2>5. \A j \in DOMAIN b : ~(j < 1)
        BY <2>1
    <2> QED BY <2>2, <2>3, <2>4, <2>5 DEF BehindInv, Answered
<1>5. ASSUME NEW w \in Workers, HandlerStep(w) \/ Dies(w) PROVE BehindInv'
    <2>1. Advances(w) /\ pending' \subseteq pending /\ UNCHANGED open
        BY <1>5, HandlerAdvances DEF Context
    <2>2. Answers(w)
        BY <1>5, HandlerAnswers
    <2>3. ASSUME NEW v \in Workers, NEW j \in DOMAIN batch'[v] PROVE batch'[v] = batch[v]
        BY <2>1, <2>3 DEF Advances, OthersStay
    <2>4. ASSUME NEW v \in Workers, NEW j \in DOMAIN batch'[v], j < at'[v]
          PROVE  Conn(batch[v][j]) \in open' => batch[v][j] \in told' \cup aside'
        <3>1. j \in DOMAIN batch[v] /\ j \in Nat /\ at[v] \in Nat
            BY <2>3, <2>4 DEF Context, HandlerType
        <3>2. CASE j < at[v]
            BY <2>1, <2>2, <3>1, <3>2 DEF BehindInv, Answered, Answers
        <3>3. CASE j >= at[v]
            <4>1. v = w
                BY <2>1, <2>4, <3>1, <3>3 DEF Advances, OthersStay
            <4> QED BY <2>2, <2>4, <3>3, <4>1 DEF Answers
        <3> QED BY <3>1, <3>2, <3>3
    <2>5. ASSUME NEW v \in Workers, NEW j \in DOMAIN batch'[v], NEW m \in pending',
                 Conn(m) = Conn(batch'[v][j]), Turn(m) < Turn(batch'[v][j])
          PROVE  \E i \in DOMAIN batch'[v] : i < j /\ batch'[v][i] = m
        BY <2>1, <2>3, <2>5 DEF BehindInv
    <2> QED BY <2>3, <2>4, <2>5 DEF BehindInv, Answered
<1>6. CASE UNCHANGED <<open, told, aside, pending, batch, at>>
    BY <1>6 DEF BehindInv, Answered
<1>7. ASSUME NEW c \in Conns, ResetChat(c) \/ ResponseTimeout(c)
      PROVE  UNCHANGED <<open, told, aside, pending, batch, at>>
    BY <1>7 DEF ResetChat, ResponseTimeout, queueVars, handlerVars
<1>8. ASSUME UNCHANGED vars PROVE UNCHANGED <<open, told, aside, pending, batch, at>>
    BY <1>8 DEF vars, pageVars, queueVars, handlerVars
<1> QED BY <1>1, <1>2, <1>3, <1>4, <1>5, <1>6, <1>7, <1>8 DEF Next


\* What has left the queue is settled, and told in the order of the turns.
LEMMA TellingStep == Context /\ BehindInv /\ TellingInv /\ [Next]_vars => TellingInv'
<1> SUFFICES ASSUME Context, BehindInv, TellingInv, [Next]_vars PROVE TellingInv'
    OBVIOUS
<1>1. ASSUME NEW c \in Conns, Send(c) PROVE TellingInv'
    <2>1. PICK n \in Messages : n = <<c, sent[c] + 1>> /\ Conn(n) = c /\ Turn(n) = sent[c] + 1 /\ sent[c] \in Nat
        BY <1>1, NewMessage DEF Context
    <2>2. /\ pending' = pending \cup {n} /\ UNCHANGED <<open, told, aside, dead>>
          /\ sent' = [sent EXCEPT ![c] = sent[c] + 1]
        BY <1>1, <2>1 DEF Send
    <2>3. ASSUME NEW m \in Messages, m # n, Turn(m) <= sent'[Conn(m)] PROVE Turn(m) <= sent[Conn(m)]
        <3>1. Conn(m) \in Conns /\ Turn(m) \in Nat /\ m = <<Conn(m), Turn(m)>> /\ sent[Conn(m)] \in Nat
            BY MessageShape DEF Context, PageType
        <3>2. sent'[Conn(m)] = IF Conn(m) = c THEN sent[c] + 1 ELSE sent[Conn(m)]
            BY <2>2, <3>1 DEF Context, PageType
        <3>3. ~(Conn(m) = c /\ Turn(m) = sent[c] + 1)
            BY <2>1, <2>3, <3>1
        <3> QED BY <2>1, <2>3, <3>1, <3>2, <3>3
    <2>4. SettledIsTold'
        BY <2>2, <2>3 DEF TellingInv, SettledIsTold
    <2>5. AnsweredInOrder'
        BY <2>2 DEF TellingInv, AnsweredInOrder
    <2>6. \A m \in told' : Sent(m)'
        BY <1>1, <2>2, SentStays DEF TellingInv, Context, PageType
    <2> QED BY <2>4, <2>5, <2>6 DEF TellingInv
<1>2. ASSUME NEW c \in Conns, Close(c) PROVE TellingInv'
    BY <1>2 DEF Close, TellingInv, SettledIsTold, AnsweredInOrder, Sent, queueVars
<1>3. ASSUME NEW m \in Messages, DeadLetter(m) PROVE TellingInv'
    BY <1>3 DEF DeadLetter, TellingInv, SettledIsTold, AnsweredInOrder, Sent, pageVars
<1>4. ASSUME NEW w \in Workers, HandlerStep(w) \/ Dies(w) PROVE TellingInv'
    <2>1. UNCHANGED <<open, sent, dead>>
        BY <1>4, HandlerAdvances DEF Context
    <2>2. Answers(w)
        BY <1>4, HandlerAnswers
    <2>3. SettledIsTold'
        <3>1. ASSUME NEW m \in Messages, Turn(m) <= sent[Conn(m)], m \notin pending', Conn(m) \in open
              PROVE  m \in told' \cup aside' \cup dead
            <4>1. CASE m \in pending
                BY <1>4, <2>1, <3>1, <4>1, ReturnSettles DEF Answered
            <4>2. CASE m \notin pending
                BY <2>2, <3>1, <4>2 DEF TellingInv, SettledIsTold, Answers
            <4> QED BY <4>1, <4>2
        <3> QED BY <2>1, <3>1 DEF SettledIsTold
    <2>4. AnsweredInOrder'
        <3>1. ASSUME NEW m \in Messages, NEW n \in Messages, Conn(m) = Conn(n), Turn(m) < Turn(n), n \in told', Conn(m) \in open
              PROVE  m \in told' \cup aside' \cup dead
            <4>1. CASE n \in told
                BY <2>2, <3>1, <4>1 DEF TellingInv, AnsweredInOrder, Answers
            <4>2. CASE n \notin told
                <5>1. at[w] \in DOMAIN batch[w] /\ n = batch[w][at[w]]
                    BY <2>2, <3>1, <4>2 DEF Answers, Current
                <5>2. CASE m \in pending
                    <6>1. PICK i \in DOMAIN batch[w] : i < at[w] /\ batch[w][i] = m
                        BY <3>1, <5>1, <5>2 DEF BehindInv
                    <6> QED BY <2>2, <3>1, <6>1 DEF BehindInv, Answered, Answers
                <5>3. CASE m \notin pending
                    <6>1. Turn(n) <= sent[Conn(n)]
                        BY <5>1 DEF Context, HandsInv, Sent
                    <6>2. Turn(m) \in Nat /\ Turn(n) \in Nat /\ Conn(n) \in Conns /\ sent[Conn(n)] \in Nat
                        BY MessageShape DEF Context, PageType
                    <6>3. Turn(m) <= sent[Conn(m)]
                        BY <3>1, <6>1, <6>2
                    <6> QED BY <2>2, <3>1, <5>3, <6>3 DEF TellingInv, SettledIsTold, Answers
                <5> QED BY <5>2, <5>3
            <4> QED BY <4>1, <4>2
        <3> QED BY <2>1, <3>1 DEF AnsweredInOrder
    <2>5. \A m \in told' : Sent(m)
        BY <2>2 DEF TellingInv, Context, HandsInv, Answers, Current
    <2> QED BY <2>1, <2>3, <2>4, <2>5 DEF TellingInv, Sent
<1>5. CASE UNCHANGED <<open, sent, told, aside, pending, dead>>
    BY <1>5 DEF TellingInv, SettledIsTold, AnsweredInOrder, Sent
<1>6. ASSUME NEW c \in Conns, ResetChat(c) \/ ResponseTimeout(c)
      PROVE  UNCHANGED <<open, sent, told, aside, pending, dead>>
    BY <1>6 DEF ResetChat, ResponseTimeout, queueVars
<1>7. ASSUME NEW w \in Workers, Receive(w) PROVE UNCHANGED <<open, sent, told, aside, pending, dead>>
    BY <1>7 DEF Receive, pageVars
<1>8. ASSUME UNCHANGED vars PROVE UNCHANGED <<open, sent, told, aside, pending, dead>>
    BY <1>8 DEF vars, pageVars, queueVars
<1> QED BY <1>1, <1>2, <1>3, <1>4, <1>5, <1>6, <1>7, <1>8 DEF Next

-----------------------------------------------------------------------------
(* The theorems. *)

ChatInv == Context /\ MishapType /\ BillingInv /\ BehindInv /\ TellingInv

\* The invariant holds at first.
LEMMA ChatInit == Init => ChatInv
<1> SUFFICES ASSUME Init PROVE ChatInv
    OBVIOUS
<1>1. Context
    <2>1. PageType
        BY ChatAssumption DEF Init, PageType
    <2>2. QueueType
        BY ChatAssumption DEF Init, QueueType
    <2>3. HandlerType
        BY DEF Init, HandlerType, Steps
    <2>4. HandsInv
        BY DEF Init, HandsInv
    <2> QED BY <2>1, <2>2, <2>3, <2>4 DEF Context
<1>2. MishapType
    BY ChatAssumption DEF Init, MishapType
<1>3. BillingType /\ LedgerInv
    BY DEF Init, BillingType, LedgerInv, Checked
<1>4. CountingInv
    BY DEF Init, CountingInv, Counts
<1>5. QuotaInv
    <2>1. Charged = {} /\ {s \in Checked : charges[s] > 0} = {}
        BY DEF Init, Charged, Checked
    <2>2. IsFiniteSet({}) /\ Cardinality({}) = 0
        BY FS_EmptySet
    <2> QED BY <2>1, <2>2, ChatAssumption DEF Init, QuotaInv, QuotaHolds, Checked
<1>6. BehindInv
    BY DEF Init, BehindInv
<1>7. TellingInv
    <2>1. \A m \in Messages : ~(Turn(m) <= sent[Conn(m)])
        <3> TAKE m \in Messages
        <3>1. Conn(m) \in Conns /\ Turn(m) \in 1..MaxTurns[Conn(m)] /\ Turn(m) \in Nat
            BY MessageShape
        <3>2. MaxTurns[Conn(m)] \in Nat
            BY <3>1, ChatAssumption
        <3> QED BY <3>1, <3>2 DEF Init
    <2> QED BY <2>1 DEF Init, TellingInv, SettledIsTold, AnsweredInOrder
<1> QED BY <1>1, <1>2, <1>3, <1>4, <1>5, <1>6, <1>7 DEF ChatInv, BillingInv

\* Every step keeps it.
LEMMA ChatStep == ChatInv /\ [Next]_vars => ChatInv'
BY PageStep, QueueStep, HandlerTypeStep, HandsStep, MishapStep, BillingStep, BehindStep, TellingStep
   DEF ChatInv, Context

\* The invariant holds of every behaviour of page, queue and handler.
THEOREM ChatInvariant == Spec => []ChatInv
<1>1. Init => ChatInv
    BY ChatInit
<1>2. ChatInv /\ [Next]_vars => ChatInv'
    BY ChatStep
<1> QED BY <1>1, <1>2, PTL DEF Spec

\* Whatever happens between page, queue, handler and billing, the variables of
\* the model keep their types.
THEOREM ChatTypeCorrect == Spec => []TypeOK
<1>1. ChatInv => TypeOK
    BY DEF ChatInv, Context, PageType, QueueType, HandlerType, BillingInv, BillingType,
           MishapType, TypeOK
<1> QED BY <1>1, ChatInvariant, PTL

\* A message with a conversationId is counted as one session, however often the
\* queue delivers it and wherever its invocations end.
THEOREM NamedIsChargedOnce == Spec => []NamedChargedOnce
<1>1. ASSUME ChatInv PROVE NamedChargedOnce
    <2> SUFFICES ASSUME NEW m \in named, NEW n \in 0..MaxReceive, charges[<<m, n>>] > 0
                 PROVE  n = 0 /\ (charges[<<m, 0>>] = 1 \/ <<m, 0>> \in readded)
        BY DEF NamedChargedOnce
    <2>1. <<m, n>> \in Sessions
        BY <1>1 DEF ChatInv, Context, PageType, Sessions
    <2>2. <<m, n>> \in ledger
        BY <1>1, <2>1 DEF ChatInv, BillingInv, LedgerInv
    <2>3. n = 0
        BY <1>1, <2>2 DEF ChatInv, BillingInv, LedgerInv
    <2>4. charges[<<m, 0>>] \in 0..2 /\ (charges[<<m, 0>>] > 1 => <<m, 0>> \in readded)
        BY <1>1, <2>1, <2>3 DEF ChatInv, BillingInv, BillingType, LedgerInv
    <2> QED BY <2>3, <2>4
<1> QED BY <1>1, ChatInvariant, PTL

\* No more counted sessions get to the agent than the tier includes, but for
\* those that only a failed call or a stale read of the count let through, for
\* any number of invocations between their increments and their reads.
THEOREM QuotaIsKept == Spec => []QuotaHolds
<1>1. ChatInv => QuotaHolds
    BY DEF ChatInv, BillingInv, QuotaInv
<1> QED BY <1>1, ChatInvariant, PTL

\* What has left the queue was answered on its page, given up by the handler or
\* moved to the dead-letter queue.
THEOREM SettledIsAnswered == Spec => []SettledIsTold
<1>1. ChatInv => SettledIsTold
    BY DEF ChatInv, TellingInv
<1> QED BY <1>1, ChatInvariant, PTL

\* The turns of a conversation are answered in their order, across batches,
\* retries and invocations.
THEOREM AnsweredIsInOrder == Spec => []AnsweredInOrder
<1>1. ChatInv => AnsweredInOrder
    BY DEF ChatInv, TellingInv
<1> QED BY <1>1, ChatInvariant, PTL

=============================================================================
