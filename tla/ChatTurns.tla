----------------------------- MODULE ChatTurns -----------------------------
(***************************************************************************)
(* The turns of chats with an agent: the chat page (source/ui-chat), the   *)
(* FIFO queue behind the WebSocket API (source/infrastructure/lib/api/     *)
(* websocket-endpoint.ts) and the Lambda that takes batches of messages    *)
(* off it, counts them against the tenant's monthly sessions, invokes the  *)
(* agent and posts what it streams back (source/lambda/agentcore-          *)
(* invocation).                                                            *)
(*                                                                         *)
(* A message m is one turn of one connection.  The queue hands out the     *)
(* messages of a connection in order and to one invocation at a time; a    *)
(* batch may mix connections.  The event source mapping is deployed        *)
(* without ReportBatchItemFailures, so what the handler returns is not     *)
(* read: a batch whose invocation returns is deleted, and one whose        *)
(* invocation throws or dies is delivered again, whole.                    *)
(*                                                                         *)
(* One action is one call to DynamoDB, the agent or the connection with    *)
(* the code up to the next.                                                *)
(***************************************************************************)
EXTENDS Naturals, Sequences, FiniteSets

CONSTANTS Conns,       \* WebSocket connections, all of one tenant
          MaxTurns,    \* turns that the user of a connection asks for
          MaxWorkers,  \* invocations at a time
          MaxBatch,    \* messages in a batch
          MaxReceive,  \* maxReceiveCount of the queue
          Included,    \* sessions that the tenant's tier includes
          Faults,      \* what may go wrong, see Mishaps
          MaxMishaps   \* how often

\* "close": a connection goes; "post": a post to an open connection fails; "dies": the invocation times out;
\* "late": less than 20 s of its time are left for a record; "billing": a call to
\* the billing table fails; "stale": a read of it misses the last writes;
\* "applied": the reply to a write of it is lost, and the SDK writes again.
Mishaps == {"close", "post", "dies", "late", "billing", "stale", "applied"}

ASSUME ChatAssumption ==
    /\ MaxTurns \in [Conns -> Nat] /\ MaxWorkers \in Nat /\ MaxBatch \in Nat /\ MaxReceive \in Nat
    /\ Included \in Nat /\ Faults \subseteq Mishaps /\ MaxMishaps \in Nat

Workers == 1..MaxWorkers

VARIABLES
    \* The chat page.
    open,      \* connections that are up
    sent,      \* turns sent
    loading,   \* isGenAiResponseLoading: the input is blocked, the timer runs
    known,     \* connections whose page has a conversationId
    named,     \* messages sent with a conversationId
    \* The queue.
    pending,   \* messages in it, those being handled included
    receives,  \* how often each was handed out
    dead,      \* messages in the dead-letter queue
    \* The invocations.
    batch, at, \* the messages of an invocation, the index of the current one
    step,
    \* The session billing table: sessions are messages, see Session.
    ledger,        \* session_ledger rows
    sessionCount,  \* SessionCount of the session_month row
    \* History.
    charges,   \* how much each session added to the SessionCount
    told,      \* messages whose END reached an open page
    aside,     \* messages given up as batchItemFailures
    served,    \* sessions that got past the quota, to the agent
    unchecked, \* those of them that no true count ever let pass
    readded,   \* sessions whose increment was applied and then repeated
    mishaps

pageVars == <<open, sent, loading, known, named>>
queueVars == <<pending, receives, dead>>
handlerVars == <<batch, at, step>>
billingVars == <<ledger, sessionCount, charges, served, unchecked, readded>>
vars == <<pageVars, queueVars, handlerVars, billingVars, told, aside, mishaps>>

Messages == UNION {{c} \X (1..MaxTurns[c]) : c \in Conns}
Conn(m) == m[1]
Turn(m) == m[2]

\* A session_id: conversation#message.  The page names the message; without a
\* conversationId, the EventProcessor makes one up each time.
Sessions == Messages \X (0..MaxReceive)
Session(m) == <<m, IF m \in named THEN 0 ELSE receives[m]>>

Steps == {"idle", "record", "increment", "readCount", "refuse", "invoke",
          "stream", "end", "error"}

TypeOK ==
    /\ open \subseteq Conns /\ known \subseteq Conns /\ loading \subseteq Conns
    /\ sent \in [Conns -> Nat] /\ \A c \in Conns : sent[c] <= MaxTurns[c]
    /\ named \subseteq Messages
    /\ pending \subseteq Messages /\ dead \subseteq Messages \ pending
    /\ receives \in [Messages -> 0..MaxReceive]
    /\ batch \in [Workers -> Seq(Messages)] /\ at \in [Workers -> Nat]
    /\ step \in [Workers -> Steps]
    /\ \A w \in Workers : at[w] <= Len(batch[w]) + 1 /\ (step[w] = "idle" <=> batch[w] = <<>>)
    /\ ledger \subseteq Sessions /\ sessionCount \in Nat /\ charges \in [Sessions -> 0..2]
    /\ served \subseteq Sessions /\ unchecked \subseteq served /\ readded \subseteq Sessions
    /\ told \subseteq Messages /\ aside \subseteq Messages
    /\ mishaps \in 0..MaxMishaps

Init ==
    /\ open = Conns /\ sent = [c \in Conns |-> 0] /\ loading = {} /\ known = {} /\ named = {}
    /\ pending = {} /\ receives = [m \in Messages |-> 0] /\ dead = {}
    /\ batch = [w \in Workers |-> <<>>] /\ at = [w \in Workers |-> 0]
    /\ step = [w \in Workers |-> "idle"]
    /\ ledger = {} /\ sessionCount = 0 /\ charges = [s \in Sessions |-> 0]
    /\ served = {} /\ unchecked = {} /\ readded = {}
    /\ told = {} /\ aside = {} /\ mishaps = 0

Mishap(kind) ==
    /\ kind \in Faults
    /\ mishaps < MaxMishaps
    /\ mishaps' = mishaps + 1

Smooth == UNCHANGED mishaps

-----------------------------------------------------------------------------
(* The page: ChatPage, useChatMessages, chatReducer. *)

\* handlePromptSend: with the conversationId the page has, if any.
Send(c) ==
    LET m == <<c, sent[c] + 1>>
    IN  /\ c \in open \ loading
        /\ sent[c] < MaxTurns[c]
        /\ sent' = [sent EXCEPT ![c] = @ + 1]
        /\ loading' = loading \cup {c}
        /\ named' = IF c \in known THEN named \cup {m} ELSE named
        /\ pending' = pending \cup {m}
        /\ UNCHANGED <<open, known, receives, dead, handlerVars, billingVars, told, aside, mishaps>>

\* resetChat: nobody tells the queue.
ResetChat(c) ==
    /\ c \in loading \cup known
    /\ loading' = loading \ {c}
    /\ known' = known \ {c}
    /\ UNCHANGED <<open, sent, named, queueVars, handlerVars, billingVars, told, aside, mishaps>>

\* CHAT_RESPONSE_TIMEOUT_MS.
ResponseTimeout(c) ==
    /\ c \in loading
    /\ loading' = loading \ {c}
    /\ UNCHANGED <<open, sent, known, named, queueVars, handlerVars, billingVars, told, aside, mishaps>>

\* The user leaves, or the network does.
Close(c) ==
    /\ c \in open
    /\ Mishap("close")
    /\ open' = open \ {c}
    /\ UNCHANGED <<sent, loading, known, named, queueVars, handlerVars, billingVars, told, aside>>

\* handleMessage takes a frame for the turn on display, whichever it is of: a
\* content frame brings its conversationId, and END completes the answer.
ShowContent(c) == known' = known \cup {c} /\ UNCHANGED <<loading, told>>
ShowEnd(m) ==
    /\ known' = known \cup {Conn(m)}
    /\ loading' = loading \ {Conn(m)}
    /\ told' = told \cup {m}
\* An error frame, before END, has no data.
ShowError(c) == loading' = loading \ {c} /\ UNCHANGED <<known, told>>
ShowNothing == UNCHANGED <<loading, known, told>>

-----------------------------------------------------------------------------
(* The queue and its event source mapping. *)

Running(w) == step[w] # "idle"
Elements(s) == {s[i] : i \in DOMAIN s}
InHand == UNION {Elements(batch[w]) : w \in Workers}
Locked == {Conn(m) : m \in InHand}

\* The messages of a connection are handed out in order, and a new one not
\* while others are.
Batches == {b \in UNION {[1..n -> pending] : n \in 1..MaxBatch} :
    /\ \A i, j \in DOMAIN b : i < j /\ Conn(b[i]) = Conn(b[j]) => Turn(b[i]) < Turn(b[j])
    /\ \A m \in Elements(b) :
           /\ Conn(m) \notin Locked /\ receives[m] < MaxReceive
           /\ \A n \in pending : Conn(n) = Conn(m) /\ Turn(n) < Turn(m) => n \in Elements(b)}

\* Invocations are numbered as they are needed.
Receive(w) ==
    /\ ~Running(w) /\ \A v \in 1..(w - 1) : Running(v)
    /\ \E b \in Batches :
           /\ batch' = [batch EXCEPT ![w] = b]
           /\ receives' = [m \in Messages |-> receives[m] + IF m \in Elements(b) THEN 1 ELSE 0]
    /\ at' = [at EXCEPT ![w] = 1]
    /\ step' = [step EXCEPT ![w] = "record"]
    /\ UNCHANGED <<pageVars, pending, dead, billingVars, told, aside, mishaps>>

DeadLetter(m) ==
    /\ m \in pending /\ Conn(m) \notin Locked
    /\ receives[m] = MaxReceive
    /\ pending' = pending \ {m}
    /\ dead' = dead \cup {m}
    /\ UNCHANGED <<pageVars, receives, handlerVars, billingVars, told, aside, mishaps>>

\* The invocation is over, and the mapping deletes its batch or lets it go.
Release(w) ==
    /\ step' = [step EXCEPT ![w] = "idle"]
    /\ batch' = [batch EXCEPT ![w] = <<>>]
    /\ at' = [at EXCEPT ![w] = 0]

Return(w) == Release(w) /\ pending' = pending \ Elements(batch[w]) /\ UNCHANGED <<receives, dead>>
Throw(w) == Release(w) /\ UNCHANGED queueVars

-----------------------------------------------------------------------------
(* lambda_handler, invoke_agent_core *)

Current(w) == batch[w][at[w]]

HandlerAt(w, s) == step[w] = s /\ at[w] \in DOMAIN batch[w]

Goto(w, s) == step' = [step EXCEPT ![w] = s] /\ UNCHANGED <<batch, at>>

\* On to the record i.
GotoRecord(w, i) ==
    /\ at' = [at EXCEPT ![w] = i]
    /\ step' = [step EXCEPT ![w] = "record"]
    /\ UNCHANGED batch

Rest(w) == {batch[w][i] : i \in {j \in DOMAIN batch[w] : j >= at[w]}}

\* The loop ends: for want of records, or of time.
EndLoop(w) ==
    /\ step[w] = "record"
    /\ \/ at[w] > Len(batch[w]) /\ UNCHANGED aside /\ Smooth
       \/ /\ at[w] \in DOMAIN batch[w] /\ Mishap("late")
          /\ aside' = aside \cup Rest(w)
    /\ Return(w)
    /\ UNCHANGED <<pageVars, billingVars, told>>

-----------------------------------------------------------------------------
(* assert_session_quota_and_record *)

\* To the agent, on a true count or without one.
Pass(w, s) ==
    Goto(w, "invoke") /\ served' = served \cup {s} /\ unchecked' = unchecked \ {s}

PassUnchecked(w, s) ==
    /\ Goto(w, "invoke") /\ served' = served \cup {s}
    /\ unchecked' = IF s \in served THEN unchecked ELSE unchecked \cup {s}

NoPass == UNCHANGED <<served, unchecked>>

\* Mutant: the put has no condition.
PutLedgerAlways(w) ==
    LET s == Session(Current(w))
    IN  /\ HandlerAt(w, "record")
        /\ ledger' = ledger \cup {s} /\ Goto(w, "increment") /\ Smooth /\ NoPass
        /\ UNCHANGED <<pageVars, queueVars, sessionCount, charges, readded, told, aside>>

\* Put with attribute_not_exists.  A put repeated by the SDK finds its own row;
\* on other errors the session is not counted and not checked.
PutLedger(w) ==
    LET s == Session(Current(w))
    IN  /\ HandlerAt(w, "record")
        /\ \/ /\ s \notin ledger /\ ledger' = ledger \cup {s} /\ NoPass
              /\ \/ Goto(w, "increment") /\ Smooth
                 \/ Goto(w, "readCount") /\ Mishap("applied")
           \/ s \in ledger /\ Goto(w, "readCount") /\ Smooth /\ NoPass /\ UNCHANGED ledger
           \/ Mishap("billing") /\ PassUnchecked(w, s) /\ UNCHANGED ledger
        /\ UNCHANGED <<pageVars, queueVars, sessionCount, charges, readded, told, aside>>

\* ADD SessionCount :one.
Add(s, n) ==
    /\ sessionCount' = sessionCount + n
    /\ charges' = [charges EXCEPT ![s] = @ + n]

Increment(w) ==
    LET s == Session(Current(w))
    IN  /\ HandlerAt(w, "increment")
        /\ \/ Add(s, 1) /\ Goto(w, "readCount") /\ Smooth /\ NoPass /\ UNCHANGED readded
           \/ /\ Mishap("applied") /\ Add(s, 2) /\ Goto(w, "readCount") /\ NoPass
              /\ readded' = readded \cup {s}
           \/ /\ Mishap("billing") /\ PassUnchecked(w, s)
              /\ UNCHANGED <<sessionCount, charges, readded>>
        /\ UNCHANGED <<pageVars, queueVars, ledger, told, aside>>

\* Mutant: one too many.
ReadCountOffByOne(w) ==
    /\ HandlerAt(w, "readCount")
    /\ \/ sessionCount > Included + 1 /\ Goto(w, "refuse") /\ NoPass
       \/ sessionCount <= Included + 1 /\ Pass(w, Session(Current(w)))
    /\ Smooth
    /\ UNCHANGED <<pageVars, queueVars, ledger, sessionCount, charges, readded, told, aside>>

\* Over the quota or not.  The read is not a consistent one: it may give a sum
\* that is too low, or fail, and then lets a session pass that is over.
ReadCount(w) ==
    LET s == Session(Current(w))
    IN  /\ HandlerAt(w, "readCount")
        /\ \/ sessionCount > Included /\ Goto(w, "refuse") /\ Smooth /\ NoPass
           \/ sessionCount <= Included /\ Pass(w, s) /\ Smooth
           \/ sessionCount > Included /\ PassUnchecked(w, s) /\ (Mishap("stale") \/ Mishap("billing"))
        /\ UNCHANGED <<pageVars, queueVars, ledger, sessionCount, charges, readded, told, aside>>

-----------------------------------------------------------------------------
(* The agent and the connection. *)

PostFails(c) == (c \notin open /\ Smooth) \/ Mishap("post")

CurrentConn(w) == Conn(Current(w))

\* invoke_agent: the agent may fail at any time.
Invoke(w) ==
    /\ HandlerAt(w, "invoke")
    /\ Goto(w, "stream") \/ Goto(w, "error")
    /\ UNCHANGED <<pageVars, queueVars, billingVars, told, aside, mishaps>>

\* _process_stream_chunks: chunks that the page shows, or none before the
\* completion (a tool's use is no content, and may fail to be posted).
StreamChunks(w) ==
    /\ HandlerAt(w, "stream")
    /\ \/ CurrentConn(w) \in open /\ ShowContent(CurrentConn(w)) /\ Goto(w, "end") /\ Smooth
       \/ ShowNothing /\ Goto(w, "end") /\ Smooth
       \/ ShowNothing /\ Goto(w, "error") /\ (Smooth \/ PostFails(CurrentConn(w)))
    /\ UNCHANGED <<open, sent, named, queueVars, billingVars, aside>>

SendEnd(w) ==
    /\ HandlerAt(w, "end")
    /\ \/ /\ CurrentConn(w) \in open /\ ShowEnd(Current(w))
          /\ GotoRecord(w, at[w] + 1) /\ Smooth
       \/ PostFails(CurrentConn(w)) /\ ShowNothing /\ Goto(w, "error")
    /\ UNCHANGED <<open, sent, named, queueVars, billingVars, aside>>

\* Mutant: the END is forgotten.
RefuseSilently(w) ==
    /\ HandlerAt(w, "refuse")
    /\ CurrentConn(w) \in open /\ ShowContent(CurrentConn(w))
    /\ GotoRecord(w, at[w] + 1) /\ Smooth
    /\ UNCHANGED <<open, sent, named, queueVars, billingVars, aside>>

\* The quota's answer is content and END.
Refuse(w) ==
    /\ HandlerAt(w, "refuse")
    /\ \/ /\ CurrentConn(w) \in open /\ ShowEnd(Current(w))
          /\ GotoRecord(w, at[w] + 1) /\ Smooth
       \/ /\ PostFails(CurrentConn(w)) /\ Goto(w, "error")
          /\ ShowNothing \/ (CurrentConn(w) \in open /\ ShowContent(CurrentConn(w)))
    /\ UNCHANGED <<open, sent, named, queueVars, billingVars, aside>>

\* The current record and those that follow it while they are of its connection
\* are given up; i is the next of another one.
IsNextConn(w, i) ==
    /\ \A j \in at[w]..(i - 1) : Conn(batch[w][j]) = CurrentConn(w)
    /\ i \in DOMAIN batch[w] => Conn(batch[w][i]) # CurrentConn(w)

\* Mutant: skips one record too many.
SendErrorMessageSkipsOne(w) ==
    /\ HandlerAt(w, "error")
    /\ CurrentConn(w) \in open /\ ShowEnd(Current(w))
    /\ \E i \in (at[w] + 1)..(Len(batch[w]) + 1) : IsNextConn(w, i) /\ GotoRecord(w, i + 1)
    /\ Smooth
    /\ UNCHANGED <<open, sent, named, queueVars, billingVars, aside>>

\* Mutant: the record is tried again.
SendErrorMessageStays(w) ==
    /\ HandlerAt(w, "error")
    /\ CurrentConn(w) \in open /\ ShowEnd(Current(w))
    /\ GotoRecord(w, at[w]) /\ Smooth
    /\ UNCHANGED <<open, sent, named, queueVars, billingVars, aside>>

\* Mutant: a post that fails is only logged.
SendErrorMessageLogs(w) ==
    /\ HandlerAt(w, "error")
    /\ \/ CurrentConn(w) \in open /\ ShowEnd(Current(w)) /\ Smooth
       \/ PostFails(CurrentConn(w)) /\ ShowNothing
    /\ GotoRecord(w, at[w] + 1)
    /\ UNCHANGED <<open, sent, named, queueVars, billingVars, aside>>

\* send_error_message: an error frame and END; a post that fails ends the
\* invocation, and with it what the batch had done.
SendErrorMessage(w) ==
    /\ HandlerAt(w, "error")
    /\ \/ /\ CurrentConn(w) \in open /\ ShowEnd(Current(w))
          /\ \E i \in (at[w] + 1)..(Len(batch[w]) + 1) :
                 /\ IsNextConn(w, i)
                 /\ aside' = aside \cup {batch[w][j] : j \in at[w]..(i - 1)}
                 /\ GotoRecord(w, i)
          /\ Smooth /\ UNCHANGED queueVars
       \/ /\ PostFails(CurrentConn(w)) /\ Throw(w)
          /\ ShowNothing \/ (CurrentConn(w) \in open /\ ShowError(CurrentConn(w)))
          /\ UNCHANGED aside
    /\ UNCHANGED <<open, sent, named, billingVars>>

Dies(w) ==
    /\ Running(w)
    /\ Mishap("dies")
    /\ Throw(w)
    /\ UNCHANGED <<pageVars, billingVars, told, aside>>

-----------------------------------------------------------------------------
HandlerStep(w) ==
    \/ EndLoop(w) \/ PutLedger(w) \/ Increment(w) \/ ReadCount(w)
    \/ Invoke(w) \/ StreamChunks(w) \/ SendEnd(w) \/ Refuse(w) \/ SendErrorMessage(w)

Next ==
    \/ \E c \in Conns : Send(c) \/ ResetChat(c) \/ ResponseTimeout(c) \/ Close(c)
    \/ \E m \in Messages : DeadLetter(m)
    \/ \E w \in Workers : Receive(w) \/ HandlerStep(w) \/ Dies(w)

Spec == Init /\ [][Next]_vars

\* The event source mapping polls, the queue moves what it must not hand out
\* again, and invocations run on; users owe nothing.
Fairness ==
    /\ WF_vars(\E m \in Messages : DeadLetter(m))
    /\ \A w \in Workers : WF_vars(Receive(w) \/ HandlerStep(w))

FairSpec == Spec /\ Fairness

-----------------------------------------------------------------------------
(* Properties. *)

\* "Idempotent ledger write prevents double-charging on retries": however often
\* a message is handed out, it is counted as one session.
ChargedOnce == \A m \in Messages : \A i, j \in 0..MaxReceive :
    charges[<<m, i>>] > 0 /\ charges[<<m, j>>] > 0 => i = j

\* A message that brings its conversationId is counted as one session, however
\* often it is handed out, unless the increment itself was repeated.
NamedChargedOnce == \A m \in named : \A n \in 0..MaxReceive :
    charges[<<m, n>>] > 0 => n = 0 /\ (charges[<<m, 0>>] = 1 \/ <<m, 0>> \in readded)

Checked == served \ unchecked

\* Of the sessions that were counted, no more get to the agent than the tier
\* includes, however invocations interleave between counting and reading, but
\* for those that nothing but a failed call to the billing table, or a read of
\* the count that missed the last writes, has let through: each of them is one
\* over the quota, and the code neither reads consistently nor looks again.
QuotaHolds == Cardinality({s \in Checked : charges[s] > 0}) <= Included

\* A message that has left the queue has been answered on the page, unless the
\* page is gone, the handler has given it up or it is in the dead-letter queue.
SettledIsTold == \A m \in Messages :
    Turn(m) <= sent[Conn(m)] /\ m \notin pending /\ Conn(m) \in open
        => m \in told \cup aside \cup dead

\* A turn is answered only when those before it have been, or are given up.
AnsweredInOrder == \A m, n \in Messages :
    Conn(m) = Conn(n) /\ Turn(m) < Turn(n) /\ n \in told /\ Conn(m) \in open => m \in told \cup aside \cup dead

\* Every message leaves the queue, whatever becomes of its connection: with the
\* bounded turns of a user, the queue is in the end empty.
TurnsSettle == <>[](pending = {})

=============================================================================
