-------------------------- MODULE TranscriptsProofs --------------------------
(***************************************************************************)
(* More theorems about Conversations: what the messages of a transcript    *)
(* have to do with each other, and with the log of answered turns that     *)
(* ConversationLog describes.                                              *)
(***************************************************************************)
EXTENDS ConversationsProofs

-------------------------------------------------------------------------------
(* The chat protocol in the middle of a turn.  Every call of transcript t  *)
(* has its result at its place, or is among the calls in rest, which are   *)
(* still to be dispatched, at the place that fits.                         *)
Answered(t, rest) ==
  \A i \in DOMAIN t : \A j \in DOMAIN t[i].calls :
    \/ /\ i + j \in DOMAIN t
       /\ t[i + j].role = "tool"
       /\ t[i + j].id = t[i].calls[j].id
    \/ /\ i + j - Len(t) \in DOMAIN rest
       /\ rest[i + j - Len(t)] = t[i].calls[j]

(* What is dispatched next has been called for, at that place.             *)
Owed(t, rest) ==
  \A l \in DOMAIN rest :
    \E j \in DOMAIN t : /\ Len(t) + l - j \in DOMAIN t[j].calls
                        /\ t[j].calls[Len(t) + l - j] = rest[l]

(* Each tool result has its call, with its id and its statement.           *)
Called(t) ==
  \A i \in DOMAIN t : t[i].role = "tool" =>
    \E j \in 1 .. (i - 1) : /\ i - j \in DOMAIN t[j].calls
                            /\ t[j].calls[i - j].id = t[i].id
                            /\ t[j].calls[i - j].sql = t[i].sql

(* From a position on no id is used twice, and completions are short       *)
(* enough for CallPositions to name all their calls.                       *)
Distinct(t, first) ==
  \A c, d \in CallPositions(t, first) : CallAt(t, c).id = CallAt(t, d).id => c = d

Bounded(t) == \A i \in DOMAIN t : Len(t[i].calls) <= MaxCalls

Protocol(t, rest, first) ==
  /\ Answered(t, rest)
  /\ Owed(t, rest)
  /\ Called(t)
  /\ Distinct(t, first)
  /\ Bounded(t)

(* The positions of calls in a transcript with one more message.           *)
LEMMA CallPositionsAppend ==
  ASSUME NEW t \in Seq(Messages), NEW m \in Messages, NEW first \in Nat \ {0},
         NEW c \in CallPositions(Append(t, m), first)
  PROVE  \/ /\ c \in CallPositions(t, first)
            /\ CallAt(Append(t, m), c) = CallAt(t, c)
         \/ /\ c[1] = Len(t) + 1
            /\ c[2] \in DOMAIN m.calls
            /\ CallAt(Append(t, m), c) = m.calls[c[2]]
<1> DEFINE u == Append(t, m)
<1>1. /\ Len(t) \in Nat /\ Len(u) = Len(t) + 1
      /\ \A i \in 1 .. Len(t) : u[i] = t[i]
      /\ u[Len(t) + 1] = m
  BY AppendProperties
<1>2. c \in (first .. Len(u)) \X (1 .. MaxCalls) /\ c[2] \in DOMAIN u[c[1]].calls
  BY DEF CallPositions
<1> HIDE DEF u
<1>3. CASE c[1] = Len(t) + 1
  BY <1>1, <1>2, <1>3 DEF CallAt, u
<1>4. CASE c[1] # Len(t) + 1
  <2>1. c[1] \in first .. Len(t) /\ c[1] \in 1 .. Len(t)
    BY <1>1, <1>2, <1>4
  <2>2. c \in (first .. Len(t)) \X (1 .. MaxCalls)
    BY <1>2, <2>1
  <2>3. c \in CallPositions(t, first)
    BY <1>1, <1>2, <2>1, <2>2 DEF CallPositions
  <2>4. CallAt(u, c) = CallAt(t, c)
    BY <1>1, <2>1 DEF CallAt
  <2> QED
    BY <2>3, <2>4 DEF u
<1> QED
  BY <1>3, <1>4

(* Calls in a message that keep the ids of a turn distinct.                *)
Fresh(t, first, cs) ==
  /\ Len(cs) <= MaxCalls
  /\ \A i \in DOMAIN cs : cs[i].id \notin UsedIds(t, first)
  /\ \A i, j \in DOMAIN cs : cs[i].id = cs[j].id => i = j

LEMMA DistinctAppend ==
  ASSUME NEW t \in Seq(Messages), NEW m \in Messages, NEW first \in Nat \ {0},
         Distinct(t, first), Fresh(t, first, m.calls)
  PROVE  Distinct(Append(t, m), first)
<1> DEFINE u == Append(t, m)
<1> SUFFICES ASSUME NEW c \in CallPositions(u, first),
                    NEW d \in CallPositions(u, first),
                    CallAt(u, c).id = CallAt(u, d).id
             PROVE  c = d
  BY DEF Distinct
<1>1. /\ \/ c \in CallPositions(t, first) /\ CallAt(u, c) = CallAt(t, c)
         \/ /\ c[1] = Len(t) + 1 /\ c[2] \in DOMAIN m.calls
            /\ CallAt(u, c) = m.calls[c[2]]
      /\ \/ d \in CallPositions(t, first) /\ CallAt(u, d) = CallAt(t, d)
         \/ /\ d[1] = Len(t) + 1 /\ d[2] \in DOMAIN m.calls
            /\ CallAt(u, d) = m.calls[d[2]]
  BY CallPositionsAppend
<1>2. c = <<c[1], c[2]>> /\ d = <<d[1], d[2]>>
  BY DEF CallPositions
<1>3. \A e \in CallPositions(t, first) : CallAt(t, e).id \in UsedIds(t, first)
  BY DEF UsedIds
<1> HIDE DEF u
<1> QED
  BY <1>1, <1>2, <1>3 DEF Distinct, Fresh

(* A message that is no tool result may follow once all calls are answered *)
(* and opens the calls it makes.                                           *)
LEMMA ProtocolSay ==
  ASSUME NEW t \in Seq(Messages), NEW m \in Messages, NEW first \in Nat \ {0},
         Protocol(t, <<>>, first), m.role # "tool", Fresh(t, first, m.calls)
  PROVE  Protocol(Append(t, m), m.calls, first)
<1> DEFINE u == Append(t, m)
           n == Len(t)
<1>1. /\ n \in Nat /\ Len(u) = n + 1 /\ DOMAIN u = 1 .. (n + 1)
      /\ DOMAIN t = 1 .. n
      /\ \A i \in 1 .. n : u[i] = t[i]
      /\ u[n + 1] = m
  BY AppendProperties
<1>2. m.calls \in Seq(Calls) /\ \A i \in 1 .. n : t[i].calls \in Seq(Calls)
  <2>1. \A i \in 1 .. n : t[i] \in Messages
    BY ElementOfSeq
  <2> QED
    BY <2>1 DEF Messages
<1>3. Answered(t, <<>>) /\ Called(t) /\ Distinct(t, first) /\ Bounded(t)
  BY DEF Protocol
<1>4. Distinct(u, first)
  BY <1>3, DistinctAppend
<1> HIDE DEF u, n
<1>5. Answered(u, m.calls)
  <2> SUFFICES ASSUME NEW i \in 1 .. (n + 1), NEW j \in DOMAIN u[i].calls
               PROVE  \/ /\ i + j \in 1 .. (n + 1)
                         /\ u[i + j].role = "tool"
                         /\ u[i + j].id = u[i].calls[j].id
                      \/ /\ i + j - (n + 1) \in DOMAIN m.calls
                         /\ m.calls[i + j - (n + 1)] = u[i].calls[j]
    BY <1>1 DEF Answered
  <2>1. CASE i = n + 1
    <3>1. j \in DOMAIN m.calls /\ j \in Nat
      BY <1>1, <1>2, <2>1
    <3>2. i + j - (n + 1) = j
      BY <1>1, <2>1, <3>1
    <3> QED
      BY <1>1, <2>1, <3>1, <3>2
  <2>2. CASE i # n + 1
    <3>1. i \in 1 .. n /\ j \in DOMAIN t[i].calls
      BY <1>1, <2>2
    <3>2. /\ i + j \in 1 .. n
          /\ t[i + j].role = "tool"
          /\ t[i + j].id = t[i].calls[j].id
      BY <1>1, <1>3, <3>1 DEF Answered
    <3> QED
      BY <1>1, <3>1, <3>2
  <2> QED
    BY <2>1, <2>2
<1>6. Owed(u, m.calls)
  <2> SUFFICES ASSUME NEW l \in DOMAIN m.calls
               PROVE  /\ n + 1 \in DOMAIN u
                      /\ Len(u) + l - (n + 1) \in DOMAIN u[n + 1].calls
                      /\ u[n + 1].calls[Len(u) + l - (n + 1)] = m.calls[l]
    BY DEF Owed
  <2>1. l \in Nat
    BY <1>2
  <2>2. Len(u) + l - (n + 1) = l
    BY <1>1, <2>1
  <2> QED
    BY <1>1, <2>2
<1>7. Called(u)
  <2> SUFFICES ASSUME NEW i \in 1 .. (n + 1), u[i].role = "tool"
               PROVE  \E j \in 1 .. (i - 1) : /\ i - j \in DOMAIN u[j].calls
                                              /\ u[j].calls[i - j].id = u[i].id
                                              /\ u[j].calls[i - j].sql = u[i].sql
    BY <1>1 DEF Called
  <2>1. i \in 1 .. n /\ t[i].role = "tool"
    BY <1>1
  <2>2. PICK j \in 1 .. (i - 1) : /\ i - j \in DOMAIN t[j].calls
                                  /\ t[j].calls[i - j].id = t[i].id
                                  /\ t[j].calls[i - j].sql = t[i].sql
    BY <1>1, <1>3, <2>1 DEF Called
  <2>3. u[j] = t[j] /\ u[i] = t[i]
    BY <1>1, <2>1
  <2> QED
    BY <2>2, <2>3
<1>8. Bounded(u)
  BY <1>1, <1>3 DEF Bounded, Fresh
<1> QED
  BY <1>4, <1>5, <1>6, <1>7, <1>8 DEF Protocol, u

(* The result of the call at the head of rest.                             *)
LEMMA ProtocolResult ==
  ASSUME NEW t \in Seq(Messages), NEW rest \in Seq(Calls), rest # <<>>,
         NEW m \in Messages, NEW first \in Nat \ {0}, Protocol(t, rest, first),
         m.role = "tool", m.calls = <<>>,
         m.id = Head(rest).id, m.sql = Head(rest).sql
  PROVE  Protocol(Append(t, m), Tail(rest), first)
<1> DEFINE u == Append(t, m)
           n == Len(t)
           q == Len(rest)
<1>1. /\ n \in Nat /\ Len(u) = n + 1 /\ DOMAIN u = 1 .. (n + 1)
      /\ DOMAIN t = 1 .. n
      /\ \A i \in 1 .. n : u[i] = t[i]
      /\ u[n + 1] = m
  BY AppendProperties
<1>2. /\ q \in Nat /\ q >= 1 /\ DOMAIN rest = 1 .. q /\ Head(rest) = rest[1]
      /\ DOMAIN Tail(rest) = 1 .. (q - 1)
      /\ \A l \in 1 .. (q - 1) : Tail(rest)[l] = rest[l + 1]
  <2>1. q \in Nat /\ DOMAIN rest = 1 .. q
    OBVIOUS
  <2>2. q # 0
    BY EmptySeq
  <2>3. /\ Tail(rest) \in Seq(Calls) /\ Len(Tail(rest)) = q - 1
        /\ \A l \in 1 .. Len(Tail(rest)) : Tail(rest)[l] = rest[l + 1]
    BY HeadTailProperties
  <2> QED
    BY <2>1, <2>2, <2>3
<1>3. \A i \in 1 .. n : DOMAIN t[i].calls \subseteq Nat
  <2>1. \A i \in 1 .. n : t[i] \in Messages
    BY ElementOfSeq
  <2>2. \A x \in Messages : x.calls \in Seq(Calls)
    BY DEF Messages
  <2>3. \A cs \in Seq(Calls) : DOMAIN cs \subseteq Nat
    OBVIOUS
  <2> QED
    BY ONLY <2>1, <2>2, <2>3, Zenon
<1>4. /\ Answered(t, rest) /\ Owed(t, rest) /\ Called(t)
      /\ Distinct(t, first) /\ Bounded(t)
  BY DEF Protocol
<1>5. Distinct(u, first)
  <2>1. Len(<<>>) = 0 /\ DOMAIN <<>> = {}
    OBVIOUS
  <2>2. Fresh(t, first, m.calls)
    BY <2>1, ConversationsAssumption DEF Fresh
  <2> QED
    BY <1>4, <2>2, DistinctAppend
<1> HIDE DEF u, n, q
<1>6. Answered(u, Tail(rest))
  <2> SUFFICES ASSUME NEW i \in 1 .. (n + 1), NEW j \in DOMAIN u[i].calls
               PROVE  \/ /\ i + j \in 1 .. (n + 1)
                         /\ u[i + j].role = "tool"
                         /\ u[i + j].id = u[i].calls[j].id
                      \/ /\ i + j - (n + 1) \in DOMAIN Tail(rest)
                         /\ Tail(rest)[i + j - (n + 1)] = u[i].calls[j]
    BY <1>1 DEF Answered
  <2>1. i \in 1 .. n /\ j \in DOMAIN t[i].calls /\ j \in Nat
    BY <1>1, <1>3
  <2>2. CASE /\ i + j \in 1 .. n
             /\ t[i + j].role = "tool"
             /\ t[i + j].id = t[i].calls[j].id
    BY <1>1, <2>1, <2>2
  <2>3. CASE i + j - n \in 1 .. q /\ rest[i + j - n] = t[i].calls[j]
    <3>1. CASE i + j - n = 1
      <4>1. i + j = n + 1 /\ i + j \in 1 .. (n + 1)
        BY <1>1, <2>1, <3>1
      <4>2. u[i] = t[i] /\ u[i + j] = m
        BY <1>1, <2>1, <4>1
      <4>3. t[i].calls[j] = Head(rest)
        BY <1>2, <2>3, <3>1
      <4> QED
        BY <4>1, <4>2, <4>3
    <3>2. CASE i + j - n # 1
      <4>1. /\ i + j - (n + 1) \in 1 .. (q - 1)
            /\ (i + j - (n + 1)) + 1 = i + j - n
        BY <1>1, <1>2, <2>1, <2>3, <3>2
      <4> QED
        BY <1>1, <1>2, <2>1, <2>3, <4>1
    <3> QED
      BY <3>1, <3>2
  <2>4. \/ /\ i + j \in 1 .. n
           /\ t[i + j].role = "tool"
           /\ t[i + j].id = t[i].calls[j].id
        \/ i + j - n \in 1 .. q /\ rest[i + j - n] = t[i].calls[j]
    BY <1>1, <1>2, <1>4, <2>1 DEF Answered, n
  <2> QED
    BY <2>2, <2>3, <2>4
<1>7. Owed(u, Tail(rest))
  <2> SUFFICES ASSUME NEW l \in 1 .. (q - 1)
               PROVE  \E j \in DOMAIN u :
                        /\ Len(u) + l - j \in DOMAIN u[j].calls
                        /\ u[j].calls[Len(u) + l - j] = Tail(rest)[l]
    BY <1>2 DEF Owed
  <2>1. l + 1 \in 1 .. q
    BY <1>2
  <2>2. PICK j \in 1 .. n : /\ n + (l + 1) - j \in DOMAIN t[j].calls
                            /\ t[j].calls[n + (l + 1) - j] = rest[l + 1]
    BY <1>1, <1>2, <1>4, <2>1 DEF Owed, n
  <2>3. Len(u) + l - j = n + (l + 1) - j
    BY <1>1
  <2>4. u[j] = t[j] /\ j \in DOMAIN u
    BY <1>1
  <2>5. Tail(rest)[l] = rest[l + 1]
    BY <1>2
  <2> QED
    BY <2>2, <2>3, <2>4, <2>5, Zenon
<1>8. Called(u)
  <2> SUFFICES ASSUME NEW i \in 1 .. (n + 1), u[i].role = "tool"
               PROVE  \E j \in 1 .. (i - 1) : /\ i - j \in DOMAIN u[j].calls
                                              /\ u[j].calls[i - j].id = u[i].id
                                              /\ u[j].calls[i - j].sql = u[i].sql
    BY <1>1 DEF Called
  <2>1. CASE i = n + 1
    <3>1. 1 \in DOMAIN rest
      BY <1>2
    <3>2. PICK j \in 1 .. n : /\ n + 1 - j \in DOMAIN t[j].calls
                              /\ t[j].calls[n + 1 - j] = rest[1]
      BY <1>1, <1>4, <3>1 DEF Owed, n
    <3> QED
      BY <1>1, <1>2, <2>1, <3>2
  <2>2. CASE i # n + 1
    <3>1. i \in 1 .. n /\ t[i].role = "tool"
      BY <1>1, <2>2
    <3>2. PICK j \in 1 .. (i - 1) : /\ i - j \in DOMAIN t[j].calls
                                    /\ t[j].calls[i - j].id = t[i].id
                                    /\ t[j].calls[i - j].sql = t[i].sql
      BY <1>1, <1>4, <3>1 DEF Called
    <3>3. u[j] = t[j] /\ u[i] = t[i]
      BY <1>1, <3>1
    <3> QED
      BY <3>2, <3>3
  <2> QED
    BY <2>1, <2>2
<1>9. Bounded(u)
  <2>1. Len(m.calls) = 0 /\ 0 <= MaxCalls
    BY ConversationsAssumption
  <2> QED
    BY <1>1, <1>4, <2>1 DEF Bounded
<1> QED
  BY <1>5, <1>6, <1>7, <1>8, <1>9 DEF Protocol, u

(* What the sessions table holds leaves nothing open, and has no call.     *)
LEMMA ProtocolStored ==
  ASSUME NEW t \in Seq(CleanMessages)
  PROVE  Protocol(t, <<>>, Len(t) + 1)
<1>1. \A i \in DOMAIN t : t[i].role # "tool" /\ t[i].calls = <<>>
  BY DEF CleanMessages, Clean
<1>2. Len(<<>>) = 0 /\ DOMAIN <<>> = {} /\ Len(t) \in Nat
  OBVIOUS
<1>3. CallPositions(t, Len(t) + 1) = {}
  BY <1>2 DEF CallPositions
<1>4. Bounded(t)
  BY <1>1, <1>2, ConversationsAssumption DEF Bounded
<1> QED
  BY <1>1, <1>2, <1>3, <1>4 DEF Protocol, Answered, Owed, Called, Distinct

(* With nothing left to dispatch the transcript obeys the chat protocol.   *)
LEMMA ProtocolDone ==
  ASSUME NEW t, NEW first, Protocol(t, <<>>, first)
  PROVE  CallsAnswered(t) /\ ResultsCalled(t)
<1>1. DOMAIN <<>> = {}
  OBVIOUS
<1> QED
  BY <1>1 DEF Protocol, Answered, Called, CallsAnswered, ResultsCalled

(* The statement found for a result is the one that was run.               *)
LEMMA ProtocolReport ==
  ASSUME NEW t \in Seq(Messages), NEW rest, NEW first \in Nat \ {0},
         Protocol(t, rest, first),
         \A i \in 1 .. (first - 1) : i <= Len(t) => t[i].calls = <<>>,
         NEW p \in Report(t, first)
  PROVE  p.sql = p.ran
<1>1. /\ p \in [sql: Statements, ran: Statements]
      /\ \E i \in first .. Len(t) : /\ t[i].role = "tool"
                                    /\ t[i].sql = p.ran
                                    /\ SqlOf(t, first, t[i].id) = p.sql
  BY DEF Report
<1>2. PICK i \in first .. Len(t) : /\ t[i].role = "tool"
                                   /\ t[i].sql = p.ran
                                   /\ SqlOf(t, first, t[i].id) = p.sql
  BY <1>1
<1>3. Called(t) /\ Distinct(t, first) /\ Bounded(t)
  BY DEF Protocol
<1>4. Len(t) \in Nat /\ DOMAIN t = 1 .. Len(t) /\ i \in DOMAIN t
  <2>1. Len(t) \in Nat /\ DOMAIN t = 1 .. Len(t)
    OBVIOUS
  <2> QED
    BY <2>1
<1>5. PICK j \in 1 .. (i - 1) : /\ i - j \in DOMAIN t[j].calls
                                /\ t[j].calls[i - j].id = t[i].id
                                /\ t[j].calls[i - j].sql = t[i].sql
  BY <1>2, <1>3, <1>4 DEF Called
<1> DEFINE c == <<j, i - j>>
<1>6. c \in CallPositions(t, first)
  <2>1. j \in DOMAIN t /\ j \in Nat /\ i \in Nat
    BY <1>4
  <2>2. t[j].calls \in Seq(Calls)
    <3>1. t[j] \in Messages
      BY <1>4, <2>1, ElementOfSeq
    <3> QED
      BY <3>1 DEF Messages
  <2>3. i - j \in 1 .. Len(t[j].calls) /\ Len(t[j].calls) <= MaxCalls
    <3>1. DOMAIN t[j].calls = 1 .. Len(t[j].calls)
      BY <2>2
    <3>2. Len(t[j].calls) <= MaxCalls
      BY <1>3, <2>1, Zenon DEF Bounded
    <3> QED
      BY <1>5, <3>1, <3>2, Zenon
  <2>4. i - j \in 1 .. MaxCalls
    BY <2>2, <2>3, ConversationsAssumption
  <2>5. j \in first .. Len(t)
    <3>1. t[j].calls # <<>>
      BY <1>5
    <3> QED
      BY <1>4, <2>1, <3>1
  <2> QED
    BY <1>5, <2>4, <2>5 DEF CallPositions
<1>7. CallAt(t, c).id = t[i].id /\ CallAt(t, c).sql = p.ran
  BY <1>2, <1>5 DEF CallAt
<1> DEFINE uses == {d \in CallPositions(t, first) :
                      CallAt(t, d).id = t[i].id /\ CallAt(t, d).sql # NONE}
<1>8. uses = {c}
  <2>1. p.ran # NONE
    BY <1>1, ConversationsAssumption
  <2>2. \A d \in uses : d = c
    BY <1>3, <1>6, <1>7 DEF Distinct
  <2>3. c \in uses
    BY <1>6, <1>7, <2>1
  <2> QED
    BY <2>2, <2>3
<1>9. SqlOf(t, first, t[i].id) = CallAt(t, c).sql
  <2> DEFINE last == CHOOSE d \in uses : \A e \in uses :
                       e[1] < d[1] \/ (e[1] = d[1] /\ e[2] <= d[2])
  <2>1. i \in Nat /\ j \in Nat /\ i - j <= i - j
    BY <1>4
  <2>2. c[1] = j /\ c[2] = i - j
    OBVIOUS
  <2>3. last = c
    <3> HIDE DEF c
    <3> QED
      BY <1>8, <2>1, <2>2
  <2>4. SqlOf(t, first, t[i].id) = IF uses = {} THEN NONE ELSE CallAt(t, last).sql
    BY DEF SqlOf
  <2> QED
    BY <1>8, <2>3, <2>4
<1> QED
  BY <1>2, <1>7, <1>9
-------------------------------------------------------------------------------
(* The steps of Conversations, as far as transcripts are concerned.  Turn  *)
(* r says or records m: a message of the model after all results, or the   *)
(* result of the next call.                                                *)
Says(r, m) ==
  /\ r \in InFlight
  /\ m \in Messages /\ m.turn = r
  /\ \/ /\ pc[r] = "llm"
        /\ m.role = "assistant"
        /\ Fresh(session[r], base[r] + 1, m.calls)
     \/ /\ pc[r] = "tools" /\ todo[r] # <<>>
        /\ m.role = "tool" /\ m.calls = <<>>
        /\ m.id = Head(todo[r]).id /\ m.sql = Head(todo[r]).sql

(* What there is to dispatch after m.                                      *)
Queue(r, m) == IF m.role = "tool" THEN Tail(todo[r]) ELSE m.calls

(* The turn goes on after m.                                               *)
Grows(r, m) ==
  /\ Says(r, m)
  /\ session' = [session EXCEPT ![r] = Append(@, m)]
  /\ todo' = [todo EXCEPT ![r] = Queue(r, m)]
  /\ \E next \in {"llm", "tools"} :
       /\ pc' = [pc EXCEPT ![r] = next]
       /\ next = "llm" => Queue(r, m) = <<>>
  /\ UNCHANGED <<store, base, report>>

(* The turn ends with m.                                                   *)
Ends(r, m) == Says(r, m) /\ Finish(r, Append(session[r], m))

(* No transcript changes, but for those thrown away.                       *)
Quiet ==
  /\ UNCHANGED store
  /\ InFlight' \subseteq InFlight
  /\ \A q \in InFlight' : /\ session'[q] = session[q] /\ base'[q] = base[q]
                          /\ todo'[q] = todo[q]
  /\ \A q \in Requests :
       /\ session'[q] \in {session[q], <<>>}
       /\ base'[q] \in {base[q], 0}
       /\ report'[q] \in {report[q], {}}
       /\ pc'[q] = "idle" => pc[q] = "idle"
       /\ pc'[q] # "tools" => \/ pc[q] # "tools" /\ todo'[q] = todo[q]
                              \/ todo'[q] = <<>>
       /\ pc'[q] \in {"reply", "answered"} => pc[q] \in {"reply", "answered"}

LEMMA SaysTool ==
  ASSUME TypeInv, NEW r \in Requests, pc[r] = "tools", NEW t \in ToolResult(r)
  PROVE  \E m \in Messages : /\ t = Append(session[r], m)
                             /\ Says(r, m)
                             /\ Queue(r, m) = Tail(todo[r])
<1>1. TypeOK /\ todo[r] # <<>>
  BY DEF TypeInv, PhaseInv
<1>2. PICK rows \in BOOLEAN :
        t = Append(session[r], ToolMessage(r, Head(todo[r]), rows))
  BY <1>1, ToolResultType
<1> DEFINE m == ToolMessage(r, Head(todo[r]), rows)
<1>3. m \in Messages
  <2>1. Head(todo[r]) \in Calls
    BY <1>1 DEF TypeOK
  <2> QED
    BY <2>1, ToolMessageType
<1>4. /\ m.turn = r /\ m.role = "tool" /\ m.calls = <<>>
      /\ m.id = Head(todo[r]).id /\ m.sql = Head(todo[r]).sql
  BY DEF ToolMessage
<1> HIDE DEF m
<1>5. Says(r, m) /\ Queue(r, m) = Tail(todo[r])
  BY <1>1, <1>3, <1>4 DEF Says, Queue, InFlight
<1> QED
  BY <1>2, <1>3, <1>5 DEF m

LEMMA SaysAssistant ==
  ASSUME TypeInv, NEW r \in Requests, pc[r] = "llm", NEW text \in BOOLEAN,
         NEW cs \in FreshCalls(r) \cup {<<>>}
  PROVE  LET m == AssistantMessage(r, text, cs)
         IN  m \in Messages /\ Says(r, m) /\ Queue(r, m) = cs
<1> DEFINE m == AssistantMessage(r, text, cs)
<1>1. CASE cs = <<>>
  <2>1. cs \in Seq(Calls) /\ DOMAIN cs = {} /\ Len(cs) = 0
    BY <1>1
  <2>2. Fresh(session[r], base[r] + 1, cs)
    BY <2>1, ConversationsAssumption DEF Fresh
  <2>3. m \in Messages /\ m.turn = r /\ m.role = "assistant" /\ m.calls = cs
    BY <2>1, AssistantMessageType DEF AssistantMessage
  <2> QED
    BY <2>2, <2>3 DEF Says, Queue, InFlight
<1>2. CASE cs \in FreshCalls(r)
  <2>1. cs \in Seq(Calls)
    BY <1>2, FreshCallsType
  <2>2. PICK n \in 1 .. MaxCalls : cs \in [1 .. n -> Calls]
    BY <1>2 DEF FreshCalls
  <2>3. Len(cs) <= MaxCalls
    BY <2>1, <2>2, ConversationsAssumption
  <2>4. Fresh(session[r], base[r] + 1, cs)
    BY <1>2, <2>3 DEF Fresh, FreshCalls
  <2>5. m \in Messages /\ m.turn = r /\ m.role = "assistant" /\ m.calls = cs
    BY <2>1, AssistantMessageType DEF AssistantMessage
  <2> QED
    BY <2>4, <2>5 DEF Says, Queue, InFlight
<1> QED
  BY <1>1, <1>2

LEMMA StepKinds ==
  ASSUME TypeInv, [Next]_vars
  PROVE  \/ \E r \in Requests : Arrive(r)
         \/ \E r \in Requests, m \in Messages : Grows(r, m) \/ Ends(r, m)
         \/ Quiet
<1>0. TypeOK
  BY DEF TypeInv
<1>1. ASSUME NEW r \in Requests, Answer(r)
      PROVE  \E m \in Messages : Ends(r, m)
  <2>1. pc[r] = "llm"
    BY <1>1 DEF Answer
  <2>2. PICK text \in BOOLEAN :
          Finish(r, Append(session[r], AssistantMessage(r, text, <<>>)))
    BY <1>1 DEF Answer
  <2> QED
    BY <2>1, <2>2, SaysAssistant DEF Ends
<1>2. ASSUME NEW r \in Requests, AskTools(r)
      PROVE  \E m \in Messages : Grows(r, m)
  <2>1. PICK text \in BOOLEAN, cs \in FreshCalls(r) :
          /\ session' = [session EXCEPT ![r] =
                           Append(@, AssistantMessage(r, text, cs))]
          /\ todo' = [todo EXCEPT ![r] = cs]
    BY <1>2 DEF AskTools
  <2> DEFINE m == AssistantMessage(r, text, cs)
  <2>2. m \in Messages /\ Says(r, m) /\ Queue(r, m) = cs
    BY <1>2, SaysAssistant DEF AskTools
  <2>3. session' = [session EXCEPT ![r] = Append(@, m)]
    BY <2>1
  <2> HIDE DEF m
  <2> QED
    BY <1>2, <2>1, <2>2, <2>3 DEF AskTools, Grows
<1>3. ASSUME NEW r \in Requests, RunTool(r)
      PROVE  \E m \in Messages : Grows(r, m)
  <2>1. PICK t \in ToolResult(r) : session' = [session EXCEPT ![r] = t]
    BY <1>3 DEF RunTool
  <2>2. PICK m \in Messages : /\ t = Append(session[r], m)
                              /\ Says(r, m)
                              /\ Queue(r, m) = Tail(todo[r])
    BY <1>3, SaysTool DEF RunTool
  <2>3. session' = [session EXCEPT ![r] = Append(@, m)]
    BY <1>0, <2>1, <2>2 DEF TypeOK
  <2>4. todo' = [todo EXCEPT ![r] = Queue(r, m)]
    BY <1>0, <1>3, <2>2 DEF RunTool, TypeOK
  <2>5. ~(Len(todo[r]) > 1) => Tail(todo[r]) = <<>>
    <3>1. todo[r] # <<>> /\ todo[r] \in Seq(Calls)
      BY <1>0, <1>3 DEF RunTool, TypeInv, PhaseInv, TypeOK
    <3>2. Tail(todo[r]) \in Seq(Calls) /\ Len(Tail(todo[r])) = Len(todo[r]) - 1
      BY <3>1, HeadTailProperties
    <3>3. Len(todo[r]) \in Nat /\ Len(Tail(todo[r])) \in Nat
      BY <3>1, <3>2
    <3> SUFFICES ASSUME ~(Len(todo[r]) > 1) PROVE Tail(todo[r]) = <<>>
      OBVIOUS
    <3>4. Len(Tail(todo[r])) = 0
      <4> DEFINE a == Len(todo[r])
                 b == Len(Tail(todo[r]))
      <4>1. a # 0
        BY <3>1, EmptySeq
      <4>2. a \in Nat /\ b \in Nat /\ b = a - 1 /\ ~(a > 1)
        BY <3>2, <3>3
      <4> HIDE DEF a, b
      <4>3. b = 0
        BY <4>1, <4>2
      <4> QED
        BY <4>3 DEF b
    <3> QED
      BY <3>2, <3>4, EmptySeq
  <2>6. \E next \in {"llm", "tools"} :
          /\ pc' = [pc EXCEPT ![r] = next]
          /\ next = "llm" => Queue(r, m) = <<>>
    <3>1. CASE Len(todo[r]) > 1
      BY <1>3, <3>1 DEF RunTool
    <3>2. CASE ~(Len(todo[r]) > 1)
      BY <1>3, <2>2, <2>5, <3>2 DEF RunTool
    <3> QED
      BY <3>1, <3>2
  <2> QED
    BY <1>3, <2>2, <2>3, <2>4, <2>6 DEF RunTool, Grows
<1>4. ASSUME NEW r \in Requests, ReachMaxTurns(r)
      PROVE  \E m \in Messages : Ends(r, m)
  <2>1. pc[r] = "tools" /\ \E t \in ToolResult(r) : Finish(r, t)
    BY <1>4 DEF ReachMaxTurns
  <2> QED
    BY <2>1, SaysTool DEF Ends
<1>5. ASSUME NEW r \in Requests,
             BuildPrompt(r) \/ Raise(r) \/ Reply(r) \/ ReplyError(r)
      PROVE  Quiet
  <2>1. CASE BuildPrompt(r)
    BY <1>0, <2>1 DEF BuildPrompt, Quiet, InFlight, TypeOK
  <2>2. CASE Raise(r)
    BY <1>0, <2>2 DEF Raise, Quiet, InFlight, TypeOK
  <2>3. CASE Reply(r)
    BY <1>0, <2>3 DEF Reply, Quiet, InFlight, TypeOK
  <2>4. CASE ReplyError(r)
    BY <1>0, <2>4 DEF ReplyError, Quiet, InFlight, TypeOK
  <2> QED
    BY <1>5, <2>1, <2>2, <2>3, <2>4
<1>6. ASSUME Crash PROVE Quiet
  <2>1. InFlight' = {}
    BY <1>6 DEF Crash, InFlight
  <2> QED
    BY <1>0, <1>6, <2>1 DEF Crash, Quiet, TypeOK
<1>7. ASSUME UNCHANGED vars PROVE Quiet
  BY <1>7 DEF vars, Quiet, InFlight
<1> QED
  BY <1>1, <1>2, <1>3, <1>4, <1>5, <1>6, <1>7 DEF Next, Step, Quiescent

(* An arriving message follows what is stored.                             *)
LEMMA ArrivedSession ==
  ASSUME TypeOK, NEW r \in Requests, Arrive(r)
  PROVE  /\ store[Key(r)] \in Seq(CleanMessages)
         /\ session'[r] = Append(store[Key(r)], UserMessage(r))
         /\ base'[r] = Len(store[Key(r)])
         /\ \A q \in Requests \ {r} : session'[q] = session[q] /\ base'[q] = base[q]
         /\ InFlight' = InFlight \cup {r} /\ r \notin InFlight
<1>1. store[Key(r)] \in Seq(CleanMessages)
  BY KeyType DEF TypeOK
<1>2. pc[r] = "idle" /\ pc' = [pc EXCEPT ![r] = "prompt"]
  BY DEF Arrive
<1>3. InFlight' = InFlight \cup {r} /\ r \notin InFlight
  BY <1>2 DEF InFlight, TypeOK
<1>4. /\ session' = [session EXCEPT ![r] = Append(store[Key(r)], UserMessage(r))]
      /\ base' = [base EXCEPT ![r] = Len(store[Key(r)])]
  BY DEF Arrive
<1> QED
  BY <1>1, <1>3, <1>4 DEF TypeOK
-------------------------------------------------------------------------------
(* The transcripts of turns in flight follow the chat protocol up to the   *)
(* calls still in the queue, which is empty outside the tools.             *)
ProtocolInv ==
  /\ \A r \in Requests : pc[r] # "tools" => todo[r] = <<>>
  /\ \A r \in InFlight : Protocol(session[r], todo[r], base[r] + 1)

LEMMA SaidProtocol ==
  ASSUME Inv, ProtocolInv, NEW r \in Requests, NEW m \in Messages, Says(r, m)
  PROVE  /\ Protocol(Append(session[r], m), Queue(r, m), base[r] + 1)
         /\ TurnTranscript(r, Append(session[r], m))
<1>1. TypeOK /\ r \in InFlight /\ m.turn = r
  BY DEF Inv, TypeInv, Says
<1>2. /\ session[r] \in Seq(Messages) /\ todo[r] \in Seq(Calls)
      /\ base[r] + 1 \in Nat \ {0}
  BY <1>1 DEF TypeOK
<1>3. TurnTranscript(r, Append(session[r], m))
  BY <1>1, AppendShape DEF Inv, ShapeInv
<1>4. Protocol(session[r], todo[r], base[r] + 1)
  BY <1>1 DEF ProtocolInv
<1>5. CASE /\ pc[r] = "llm" /\ m.role = "assistant"
           /\ Fresh(session[r], base[r] + 1, m.calls)
  <2>1. todo[r] = <<>> /\ m.role # "tool"
    BY <1>5 DEF ProtocolInv
  <2>2. Protocol(Append(session[r], m), m.calls, base[r] + 1)
    BY <1>2, <1>4, <1>5, <2>1, ProtocolSay
  <2> QED
    BY <1>3, <2>1, <2>2 DEF Queue
<1>6. CASE /\ pc[r] = "tools" /\ todo[r] # <<>>
           /\ m.role = "tool" /\ m.calls = <<>>
           /\ m.id = Head(todo[r]).id /\ m.sql = Head(todo[r]).sql
  <2>1. Protocol(Append(session[r], m), Tail(todo[r]), base[r] + 1)
    BY <1>2, <1>4, <1>6, ProtocolResult
  <2> QED
    BY <1>3, <1>6, <2>1 DEF Queue
<1> QED
  BY <1>5, <1>6 DEF Says

LEMMA NextProtocol ==
  ASSUME Inv, ProtocolInv, [Next]_vars
  PROVE  ProtocolInv'
<1>0. TypeOK /\ TypeInv
  BY DEF Inv, TypeInv
<1>1. ASSUME NEW r \in Requests, Arrive(r) PROVE ProtocolInv'
  <2>1. /\ todo' = todo /\ pc' = [pc EXCEPT ![r] = "prompt"] /\ pc[r] = "idle"
    BY <1>1 DEF Arrive
  <2>2. \A q \in Requests : pc'[q] # "tools" => todo'[q] = <<>>
    BY <1>0, <2>1 DEF ProtocolInv, TypeOK
  <2>3. Protocol(session'[r], todo'[r], base'[r] + 1)
    <3> DEFINE s == store[Key(r)]
    <3>1. s \in Seq(CleanMessages) /\ s \in Seq(Messages) /\ Len(s) + 1 \in Nat \ {0}
      <4>1. s \in Seq(CleanMessages) /\ CleanMessages \subseteq Messages
        BY <1>0, <1>1, ArrivedSession DEF CleanMessages
      <4> QED
        BY <4>1
    <3>2. Protocol(s, <<>>, Len(s) + 1)
      BY <3>1, ProtocolStored
    <3>3. UserMessage(r).role # "tool" /\ UserMessage(r).calls = <<>>
      BY DEF UserMessage
    <3>4. Fresh(s, Len(s) + 1, UserMessage(r).calls)
      <4>1. Len(<<>>) = 0 /\ DOMAIN <<>> = {}
        OBVIOUS
      <4> QED
        BY <3>3, <4>1, ConversationsAssumption DEF Fresh
    <3> HIDE DEF s
    <3>5. Protocol(Append(s, UserMessage(r)), <<>>, Len(s) + 1)
      BY <3>1, <3>2, <3>3, <3>4, ProtocolSay, UserMessageType
    <3>6. todo'[r] = <<>>
      BY <2>1, <2>2
    <3> QED
      BY <1>0, <1>1, <3>5, <3>6, ArrivedSession DEF s
  <2>4. ASSUME NEW q \in InFlight', q # r
        PROVE  Protocol(session'[q], todo'[q], base'[q] + 1)
    <3>1. q \in InFlight /\ session'[q] = session[q] /\ base'[q] = base[q]
      BY <1>0, <1>1, <2>4, ArrivedSession DEF InFlight
    <3> QED
      BY <2>1, <3>1 DEF ProtocolInv
  <2> QED
    BY <2>2, <2>3, <2>4 DEF ProtocolInv
<1>2. ASSUME NEW r \in Requests, NEW m \in Messages, Grows(r, m)
      PROVE  ProtocolInv'
  <2>1. /\ Protocol(Append(session[r], m), Queue(r, m), base[r] + 1)
        /\ r \in InFlight
    BY <1>2, SaidProtocol DEF Grows, Says
  <2>2. PICK next \in {"llm", "tools"} :
          /\ pc' = [pc EXCEPT ![r] = next]
          /\ next = "llm" => Queue(r, m) = <<>>
    BY <1>2 DEF Grows
  <2>3. /\ session' = [session EXCEPT ![r] = Append(session[r], m)]
        /\ todo' = [todo EXCEPT ![r] = Queue(r, m)]
        /\ base' = base
    BY <1>0, <1>2 DEF Grows, TypeOK
  <2>4. \A q \in InFlight' : q \in InFlight
    BY <1>0, <2>1, <2>2 DEF InFlight, TypeOK
  <2>5. \A q \in Requests : pc'[q] # "tools" => todo'[q] = <<>>
    BY <1>0, <2>2, <2>3 DEF ProtocolInv, TypeOK
  <2>6. ASSUME NEW q \in InFlight'
        PROVE  Protocol(session'[q], todo'[q], base'[q] + 1)
    <3>1. q \in Requests /\ q \in InFlight
      BY <2>4 DEF InFlight
    <3>2. CASE q = r
      BY <1>0, <2>1, <2>3, <3>2 DEF TypeOK
    <3>3. CASE q # r
      BY <1>0, <2>3, <3>1, <3>3 DEF TypeOK, ProtocolInv
    <3> QED
      BY <3>2, <3>3
  <2> QED
    BY <2>5, <2>6 DEF ProtocolInv
<1>3. ASSUME NEW r \in Requests, NEW m \in Messages, Ends(r, m)
      PROVE  ProtocolInv'
  <2>1. /\ session' = [session EXCEPT ![r] = <<>>]
        /\ base' = [base EXCEPT ![r] = 0]
        /\ todo' = [todo EXCEPT ![r] = <<>>]
        /\ pc' = [pc EXCEPT ![r] = "reply"]
    BY <1>3 DEF Ends, Finish
  <2>2. \A q \in InFlight' : /\ q \in InFlight /\ session'[q] = session[q]
                             /\ base'[q] = base[q] /\ todo'[q] = todo[q]
    BY <1>0, <2>1 DEF InFlight, TypeOK
  <2>3. \A q \in Requests : pc'[q] # "tools" => todo'[q] = <<>>
    BY <1>0, <2>1 DEF ProtocolInv, TypeOK
  <2> QED
    BY <2>2, <2>3 DEF ProtocolInv
<1>4. CASE Quiet
  <2>1. \A q \in InFlight' : /\ q \in InFlight /\ session'[q] = session[q]
                             /\ base'[q] = base[q] /\ todo'[q] = todo[q]
    BY <1>4 DEF Quiet
  <2>2. \A q \in Requests : pc'[q] # "tools" => todo'[q] = <<>>
    BY <1>4 DEF ProtocolInv, Quiet
  <2> QED
    BY <2>1, <2>2 DEF ProtocolInv
<1> QED
  BY <1>0, <1>1, <1>2, <1>3, <1>4, StepKinds

LEMMA SpecProtocol == Spec => [](Inv /\ ProtocolInv)
<1>1. Init => ProtocolInv
  BY DEF Init, ProtocolInv, InFlight
<1>2. ProtocolInv /\ Inv /\ [Next]_vars => ProtocolInv'
  BY NextProtocol
<1> QED
  BY <1>1, <1>2, SpecInv, PTL DEF Spec

(* Every prompt obeys the chat protocol, however many tools a turn calls   *)
(* and whatever other turns save meanwhile: the transcript an LLM call is  *)
(* made with has a result, in order, for each call and no other results.   *)
THEOREM WellFormedPromptHolds == Spec => []WellFormedPrompt
<1>1. ProtocolInv => WellFormedPrompt
  <2> SUFFICES ASSUME ProtocolInv, NEW r \in Requests, pc[r] = "llm"
               PROVE  CallsAnswered(session[r]) /\ ResultsCalled(session[r])
    BY DEF WellFormedPrompt
  <2>1. Protocol(session[r], <<>>, base[r] + 1)
    BY DEF ProtocolInv, InFlight
  <2> QED
    BY <2>1, ProtocolDone
<1> QED
  BY <1>1, SpecProtocol, PTL

(* The SQL section of an answer shows each result with the statement that  *)
(* was run for it: ids are looked up in the messages of the turn only, so  *)
(* a conversation that used the same ids before cannot lend its SQL.       *)
THEOREM ReportFaithfulHolds == Spec => []ReportFaithful
<1>1. Init => ReportFaithful
  BY DEF Init, ReportFaithful
<1>2. Inv /\ ProtocolInv /\ ReportFaithful /\ [Next]_vars => ReportFaithful'
  <2> SUFFICES ASSUME Inv, ProtocolInv, ReportFaithful, [Next]_vars
               PROVE  ReportFaithful'
    OBVIOUS
  <2>0. TypeOK /\ TypeInv
    BY DEF Inv, TypeInv
  <2>1. ASSUME NEW r \in Requests, Arrive(r) PROVE ReportFaithful'
    BY <2>1 DEF Arrive, ReportFaithful
  <2>2. ASSUME NEW r \in Requests, NEW m \in Messages, Grows(r, m)
        PROVE  ReportFaithful'
    BY <2>2 DEF Grows, ReportFaithful
  <2>3. ASSUME NEW r \in Requests, NEW m \in Messages, Ends(r, m)
        PROVE  ReportFaithful'
    <3> DEFINE t == Append(session[r], m)
               b == base[r]
    <3>1. Protocol(t, Queue(r, m), b + 1) /\ TurnTranscript(r, t)
      BY <2>3, SaidProtocol DEF Ends
    <3>2. report' = [report EXCEPT ![r] = Report(t, b + 1)]
      BY <2>3 DEF Ends, Finish
    <3>3. b \in Nat
      BY <2>0 DEF TypeOK
    <3>4. t \in Seq(Messages) /\ \A i \in 1 .. b : t[i].calls = <<>>
      BY <3>1 DEF TurnTranscript, Clean
    <3> HIDE DEF t, b
    <3>5. b + 1 \in Nat \ {0} /\ (b + 1) - 1 = b
      BY <3>3
    <3>6. \A p \in Report(t, b + 1) : p.sql = p.ran
      BY <3>1, <3>4, <3>5, ProtocolReport
    <3> QED
      BY <2>0, <3>2, <3>6 DEF TypeOK, ReportFaithful
  <2>4. CASE Quiet
    BY <2>4 DEF Quiet, ReportFaithful
  <2> QED
    BY <2>0, <2>1, <2>2, <2>3, <2>4, StepKinds
<1> QED
  BY <1>1, <1>2, SpecProtocol, PTL DEF Spec
-------------------------------------------------------------------------------
(* What TurnsWhole asks of a transcript, for its first n messages.         *)
Whole(t, n) ==
  \A i \in 1 .. n :
    /\ t[i].role = "assistant" => i > 1 /\ t[i - 1].turn = t[i].turn
    /\ \A j \in 1 .. n :
         t[i].role = "user" /\ t[j].role = "user" /\ t[i].turn = t[j].turn => i = j

(* Nothing of turn r is anywhere but behind base[r] in its own session.    *)
Unseen(r) ==
  /\ \A k \in Keys : \A i \in DOMAIN store[k] : store[k][i].turn # r
  /\ \A q \in Requests \ {r} : \A i \in DOMAIN session[q] : session[q][i].turn # r
  /\ \A i \in DOMAIN session[r] : i <= base[r] => session[r][i].turn # r

(* Turns do not see each other before they end, and each asks once.        *)
WholeInv ==
  /\ \A k \in Keys : Whole(store[k], Len(store[k]))
  /\ \A r \in InFlight :
       /\ Whole(session[r], base[r])
       /\ \A i \in (base[r] + 2) .. Len(session[r]) : session[r][i].role # "user"
  /\ \A r \in Requests : r \in InFlight \/ pc[r] = "idle" => Unseen(r)

LEMMA WholePrefix ==
  ASSUME NEW s, NEW t, NEW n \in Nat, \A i \in 1 .. n : t[i] = s[i], Whole(s, n)
  PROVE  Whole(t, n)
<1>1. ASSUME NEW i \in 1 .. n, i > 1 PROVE i - 1 \in 1 .. n
  BY <1>1
<1> QED
  BY <1>1 DEF Whole

(* What the end of turn r stores: the loaded messages, its question, and   *)
(* no further question.                                                    *)
LEMMA SavedTurn ==
  ASSUME Inv, WholeInv, NEW r \in Requests, NEW m \in Messages, Says(r, m)
  PROVE  LET s == Compress(Append(session[r], m))
         IN  /\ SavedTranscript(r, s)
             /\ s[base[r] + 1] = UserMessage(r)
             /\ \A i \in (base[r] + 2) .. Len(s) : s[i].role # "user"
<1> DEFINE t == Append(session[r], m)
           s == Compress(t)
           n == Len(session[r])
           b == base[r] + 1
<1>1. /\ TypeOK /\ r \in InFlight /\ m.turn = r /\ m.role # "user"
      /\ TurnTranscript(r, session[r])
  BY DEF Inv, TypeInv, Says, ShapeInv
<1>2. TurnTranscript(r, t)
  BY <1>1, AppendShape
<1>3. SavedTranscript(r, s)
  BY <1>1, <1>2, SavedShape
<1>4. session[r] \in Seq(Messages) /\ base[r] \in Nat /\ n \in Nat
  <2>1. session[r] \in Seq(Messages) /\ base[r] \in Nat
    BY <1>1 DEF TypeOK
  <2> QED
    BY <2>1
<1>5. /\ t \in Seq(Messages) /\ Len(t) = n + 1 /\ t[n + 1] = m
      /\ \A i \in 1 .. n : t[i] = session[r][i]
  BY <1>4, AppendProperties
<1>6. base[r] < Len(t) /\ t[b] = UserMessage(r) /\ \A i \in 1 .. base[r] : Clean(t[i])
  BY <1>2 DEF TurnTranscript
<1>7. \A i \in (base[r] + 2) .. n : session[r][i].role # "user"
  BY <1>1 DEF WholeInv
<1>8. \A i \in (b + 1) .. Len(t) : t[i].role # "user" /\ t[i] \in Messages
  <2> SUFFICES ASSUME NEW i \in (b + 1) .. Len(t)
               PROVE  t[i].role # "user" /\ t[i] \in Messages
    OBVIOUS
  <2> HIDE DEF t, n
  <2>1. CASE i = n + 1
    BY <1>1, <1>5, <2>1
  <2>2. CASE i # n + 1
    <3>1. i \in 1 .. n /\ i \in (base[r] + 2) .. n
      BY <1>4, <1>5, <2>2
    <3>2. t[i] = session[r][i] /\ session[r][i] \in Messages
      BY <1>4, <1>5, <3>1, ElementOfSeq DEF n
    <3> QED
      BY <1>7, <3>1, <3>2
  <2> QED
    BY <2>1, <2>2
<1>9. b \in 0 .. Len(t) /\ \A i \in 1 .. b : Clean(t[i])
  <2> HIDE DEF t, n
  <2> QED
    BY <1>4, <1>5, <1>6, UserMessageType
<1> HIDE DEF t, s, n, b
<1>10. /\ b <= Len(s)
       /\ \A i \in 1 .. b : s[i] = t[i]
       /\ \A i \in (b + 1) .. Len(s) :
            \E j \in (b + 1) .. Len(t) : s[i] = Strip(t[j])
  BY <1>5, <1>9, CompressPrefix DEF s
<1>11. s[b] = UserMessage(r)
  BY <1>4, <1>6, <1>10 DEF b
<1>12. ASSUME NEW i \in (b + 1) .. Len(s) PROVE s[i].role # "user"
  <2>1. PICK j \in (b + 1) .. Len(t) : s[i] = Strip(t[j])
    BY <1>10
  <2> QED
    BY <1>8, <2>1 DEF Strip, Messages
<1> QED
  BY <1>3, <1>4, <1>11, <1>12 DEF b, s, t

LEMMA SavedWhole ==
  ASSUME Inv, WholeInv, NEW r \in Requests, NEW m \in Messages, Says(r, m)
  PROVE  LET s == Compress(Append(session[r], m)) IN Whole(s, Len(s))
<1> DEFINE s == Compress(Append(session[r], m))
           b == base[r]
           n == Len(s)
<1>1. TypeOK /\ r \in InFlight /\ b \in Nat /\ n \in Nat /\ b < n
  <2>1. TypeOK /\ r \in InFlight /\ SavedTranscript(r, s)
    BY SavedTurn DEF Inv, TypeInv, Says
  <2> QED
    BY <2>1 DEF TypeOK, InFlight, SavedTranscript
<1>2. /\ \A i \in 1 .. b : s[i] = session[r][i]
      /\ \A i \in (b + 1) .. n : s[i].turn = r
      /\ s[b + 1] = UserMessage(r)
      /\ \A i \in (b + 2) .. n : s[i].role # "user"
  BY SavedTurn DEF SavedTranscript
<1>3. Whole(session[r], b) /\ \A i \in 1 .. b : session[r][i].turn # r
  <2>1. Unseen(r) /\ Whole(session[r], b)
    BY <1>1 DEF WholeInv
  <2>2. 1 .. b \subseteq DOMAIN session[r]
    <3>1. session[r] \in Seq(Messages) /\ b < Len(session[r])
      BY <1>1 DEF Inv, ShapeInv, TurnTranscript
    <3> QED
      BY <1>1, <3>1
  <2> QED
    BY <1>1, <2>1, <2>2 DEF Unseen
<1> HIDE DEF s, b, n
<1>4. Whole(s, b)
  BY <1>1, <1>2, <1>3, WholePrefix
<1>5. ASSUME NEW i \in 1 .. n, s[i].role = "assistant"
      PROVE  i > 1 /\ s[i - 1].turn = s[i].turn
  <2>1. CASE i \in 1 .. b
    BY <1>4, <1>5, <2>1 DEF Whole
  <2>2. CASE i = b + 1
    BY <1>2, <1>5, <2>2 DEF UserMessage
  <2>3. CASE i \in (b + 2) .. n
    <3>1. i > 1 /\ i - 1 \in (b + 1) .. n /\ i \in (b + 1) .. n
      BY <1>1, <2>3
    <3> QED
      BY <1>2, <3>1
  <2> QED
    BY <1>1, <2>1, <2>2, <2>3
<1>6. ASSUME NEW i \in 1 .. n, NEW j \in 1 .. n, s[i].role = "user",
             s[j].role = "user", s[i].turn = s[j].turn
      PROVE  i = j
  <2>1. i \in 1 .. b \/ i = b + 1
    BY <1>1, <1>2, <1>6
  <2>2. j \in 1 .. b \/ j = b + 1
    BY <1>1, <1>2, <1>6
  <2>3. s[b + 1].turn = r /\ \A l \in 1 .. b : s[l].turn # r
    BY <1>2, <1>3 DEF UserMessage
  <2> QED
    BY <1>4, <1>6, <2>1, <2>2, <2>3 DEF Whole
<1>7. Whole(s, n)
  BY <1>5, <1>6 DEF Whole
<1> QED
  BY <1>7 DEF s, n

LEMMA NextWhole ==
  ASSUME Inv, WholeInv, [Next]_vars
  PROVE  WholeInv'
<1>0. TypeOK /\ TypeInv
  BY DEF Inv, TypeInv
<1>1. ASSUME NEW r \in Requests, Arrive(r) PROVE WholeInv'
  <2> DEFINE s == store[Key(r)]
             t == Append(s, UserMessage(r))
             n == Len(s)
  <2>1. /\ UNCHANGED store /\ pc[r] = "idle" /\ pc' = [pc EXCEPT ![r] = "prompt"]
        /\ Key(r) \in Keys
    BY <1>1, KeyType DEF Arrive
  <2>2. /\ session'[r] = t /\ base'[r] = n
        /\ \A q \in Requests \ {r} : session'[q] = session[q] /\ base'[q] = base[q]
        /\ InFlight' = InFlight \cup {r}
        /\ s \in Seq(CleanMessages)
    BY <1>0, <1>1, ArrivedSession
  <2>3. /\ n \in Nat /\ DOMAIN s = 1 .. n /\ DOMAIN t = 1 .. (n + 1) /\ Len(t) = n + 1
        /\ \A i \in 1 .. n : t[i] = s[i]
        /\ t[n + 1] = UserMessage(r)
    <3>1. s \in Seq(Messages)
      <4>1. CleanMessages \subseteq Messages
        BY DEF CleanMessages
      <4> QED
        BY <2>2, <4>1
    <3> QED
      BY <3>1, UserMessageType, AppendProperties
  <2>4. Whole(s, n) /\ \A q \in Requests : Unseen(q) => \A i \in 1 .. n : s[i].turn # q
    BY <2>1, <2>3 DEF WholeInv, Unseen
  <2> HIDE DEF s, t, n
  <2>5. Whole(t, n)
    BY <2>3, <2>4, WholePrefix
  <2>6. \A q \in InFlight' :
          /\ Whole(session'[q], base'[q])
          /\ \A i \in (base'[q] + 2) .. Len(session'[q]) : session'[q][i].role # "user"
    <3> SUFFICES ASSUME NEW q \in InFlight'
                 PROVE  /\ Whole(session'[q], base'[q])
                        /\ \A i \in (base'[q] + 2) .. Len(session'[q]) :
                             session'[q][i].role # "user"
      OBVIOUS
    <3>1. CASE q = r
      <4>1. \A i \in (n + 2) .. Len(t) : FALSE
        BY <2>3
      <4> QED
        BY <2>2, <2>5, <3>1, <4>1
    <3>2. CASE q # r
      BY <2>2, <3>2 DEF InFlight, WholeInv
    <3> QED
      BY <3>1, <3>2
  <2>7. ASSUME NEW q \in Requests, q \in InFlight' \/ pc'[q] = "idle"
        PROVE  Unseen(q)'
    <3>1. Unseen(q)
      <4>1. q \in InFlight \/ pc[q] = "idle"
        BY <1>0, <2>1, <2>2, <2>7 DEF TypeOK
      <4> QED
        BY <4>1 DEF WholeInv
    <3>2. \A k \in Keys : \A i \in DOMAIN store'[k] : store'[k][i].turn # q
      BY <2>1, <3>1 DEF Unseen
    <3>3. \A i \in 1 .. n : s[i].turn # q
      BY <2>4, <3>1
    <3>4. ASSUME NEW p \in Requests \ {q}, NEW i \in DOMAIN session'[p]
          PROVE  session'[p][i].turn # q
      <4>1. CASE p = r
        <5>1. t[n + 1].turn # q
          BY <2>3, <3>4, <4>1 DEF UserMessage
        <5> QED
          BY <2>2, <2>3, <3>3, <3>4, <4>1, <5>1
      <4>2. CASE p # r
        BY <2>2, <3>1, <3>4, <4>2 DEF Unseen
      <4> QED
        BY <4>1, <4>2
    <3>5. ASSUME NEW i \in DOMAIN session'[q], i <= base'[q]
          PROVE  session'[q][i].turn # q
      <4>1. CASE q = r
        <5>1. i \in 1 .. n
          BY <2>2, <2>3, <3>5, <4>1
        <5> QED
          BY <2>2, <2>3, <3>3, <4>1, <5>1
      <4>2. CASE q # r
        BY <2>2, <3>1, <3>5, <4>2 DEF Unseen
      <4> QED
        BY <4>1, <4>2
    <3> QED
      BY <3>2, <3>4, <3>5 DEF Unseen
  <2>8. \A k \in Keys : Whole(store'[k], Len(store'[k]))
    BY <2>1 DEF WholeInv
  <2> QED
    BY <2>6, <2>7, <2>8 DEF WholeInv
<1>2. ASSUME NEW r \in Requests, NEW m \in Messages, Grows(r, m)
      PROVE  WholeInv'
  <2> DEFINE t == Append(session[r], m)
             n == Len(session[r])
  <2>1. /\ r \in InFlight /\ m.turn = r /\ m.role # "user"
        /\ TurnTranscript(r, session[r])
    BY <1>2 DEF Grows, Says, Inv, ShapeInv
  <2>2. /\ session' = [session EXCEPT ![r] = t]
        /\ UNCHANGED <<store, base>>
    BY <1>0, <1>2 DEF Grows, TypeOK
  <2>3. \E next \in {"llm", "tools"} : pc' = [pc EXCEPT ![r] = next]
    BY <1>2 DEF Grows
  <2>4. InFlight' = InFlight /\ \A q \in Requests : pc'[q] = "idle" => pc[q] = "idle"
    BY <1>0, <2>1, <2>3 DEF InFlight, TypeOK
  <2>5. /\ n \in Nat /\ DOMAIN session[r] = 1 .. n /\ DOMAIN t = 1 .. (n + 1)
        /\ Len(t) = n + 1 /\ t[n + 1] = m
        /\ \A i \in 1 .. n : t[i] = session[r][i]
    <3>1. session[r] \in Seq(Messages)
      BY <1>0 DEF TypeOK
    <3> QED
      BY <3>1, AppendProperties
  <2>6. base[r] \in Nat /\ base[r] < n
    BY <1>0, <2>1 DEF TypeOK, TurnTranscript
  <2>7. session'[r] = t /\ \A q \in Requests \ {r} : session'[q] = session[q]
    BY <1>0, <2>2 DEF TypeOK
  <2> HIDE DEF t, n
  <2>8. ASSUME NEW q \in InFlight'
        PROVE  /\ Whole(session'[q], base'[q])
               /\ \A i \in (base'[q] + 2) .. Len(session'[q]) :
                    session'[q][i].role # "user"
    <3>1. /\ q \in InFlight /\ q \in Requests
          /\ Whole(session[q], base[q])
          /\ \A i \in (base[q] + 2) .. Len(session[q]) : session[q][i].role # "user"
      BY <2>4 DEF WholeInv, InFlight
    <3>2. CASE q = r
      <4>1. Whole(t, base[r])
        BY <2>5, <2>6, <3>1, <3>2, WholePrefix
      <4>2. ASSUME NEW i \in (base[r] + 2) .. Len(t) PROVE t[i].role # "user"
        <5>1. i = n + 1 \/ (i \in 1 .. n /\ i \in (base[r] + 2) .. n)
          BY <2>5, <2>6
        <5> QED
          BY <2>1, <2>5, <3>1, <3>2, <5>1 DEF n
      <4> QED
        BY <2>2, <2>7, <3>2, <4>1, <4>2
    <3>3. CASE q # r
      BY <2>2, <2>7, <3>1, <3>3
    <3> QED
      BY <3>2, <3>3
  <2>9. ASSUME NEW q \in Requests, q \in InFlight' \/ pc'[q] = "idle"
        PROVE  Unseen(q)'
    <3>1. Unseen(q)
      BY <2>4, <2>9 DEF WholeInv
    <3>2. ASSUME NEW p \in Requests \ {q}, NEW i \in DOMAIN session'[p]
          PROVE  session'[p][i].turn # q
      <4>1. CASE p = r
        BY <2>1, <2>5, <2>7, <3>1, <3>2, <4>1 DEF Unseen
      <4>2. CASE p # r
        BY <2>7, <3>1, <3>2, <4>2 DEF Unseen
      <4> QED
        BY <4>1, <4>2
    <3>3. ASSUME NEW i \in DOMAIN session'[q], i <= base'[q]
          PROVE  session'[q][i].turn # q
      <4>1. CASE q = r
        <5>1. i \in 1 .. n /\ i <= base[q]
          BY <2>2, <2>5, <2>6, <2>7, <3>3, <4>1
        <5> QED
          BY <2>5, <2>7, <3>1, <4>1, <5>1 DEF Unseen
      <4>2. CASE q # r
        BY <2>2, <2>7, <3>1, <3>3, <4>2 DEF Unseen
      <4> QED
        BY <4>1, <4>2
    <3> QED
      BY <2>2, <3>1, <3>2, <3>3 DEF Unseen
  <2> QED
    BY <2>2, <2>8, <2>9 DEF WholeInv
<1>3. ASSUME NEW r \in Requests, NEW m \in Messages, Ends(r, m)
      PROVE  WholeInv'
  <2> DEFINE s == Compress(Append(session[r], m))
  <2>1. /\ store' = [store EXCEPT ![Key(r)] = s]
        /\ session' = [session EXCEPT ![r] = <<>>]
        /\ base' = [base EXCEPT ![r] = 0]
        /\ pc' = [pc EXCEPT ![r] = "reply"]
        /\ Says(r, m) /\ r \in InFlight /\ Key(r) \in Keys
    BY <1>3, KeyType DEF Ends, Finish, Says
  <2>2. SavedTranscript(r, s) /\ Whole(s, Len(s))
    BY <2>1, SavedTurn, SavedWhole
  <2> HIDE DEF s
  <2>3. /\ store'[Key(r)] = s
        /\ \A k \in Keys \ {Key(r)} : store'[k] = store[k]
        /\ session'[r] = <<>> /\ base'[r] = 0
        /\ \A q \in Requests \ {r} : session'[q] = session[q] /\ base'[q] = base[q]
        /\ \A q \in Requests : q \in InFlight' => q \in InFlight /\ q # r
        /\ \A q \in Requests : pc'[q] = "idle" => pc[q] = "idle" /\ q # r
    BY <1>0, <2>1 DEF TypeOK, InFlight
  <2>4. \A k \in Keys : Whole(store'[k], Len(store'[k]))
    BY <2>2, <2>3 DEF WholeInv
  <2>5. ASSUME NEW q \in Requests, q \in InFlight' \/ pc'[q] = "idle"
        PROVE  Unseen(q)'
    <3>1. Unseen(q) /\ q # r
      BY <2>3, <2>5 DEF WholeInv
    <3>2. ASSUME NEW i \in DOMAIN s PROVE s[i].turn # q
      <4>1. /\ i \in 1 .. base[r] \/ i \in (base[r] + 1) .. Len(s)
            /\ base[r] \in Nat
        <5>1. s \in Seq(CleanMessages) /\ base[r] \in Nat
          BY <1>0, <2>2 DEF SavedTranscript, TypeOK
        <5> QED
          BY <5>1
      <4>2. CASE i \in 1 .. base[r]
        <5>1. s[i] = session[r][i]
          BY <2>2, <4>2 DEF SavedTranscript
        <5>2. i \in DOMAIN session[r]
          <6>1. session[r] \in Seq(Messages) /\ base[r] < Len(session[r])
            BY <2>1 DEF Inv, ShapeInv, TurnTranscript
          <6> QED
            BY <4>1, <4>2, <6>1
        <5> QED
          BY <3>1, <5>1, <5>2 DEF Unseen
      <4>3. CASE i \in (base[r] + 1) .. Len(s)
        BY <2>2, <3>1, <4>3 DEF SavedTranscript
      <4> QED
        BY <4>1, <4>2, <4>3
    <3>3. \A k \in Keys : \A i \in DOMAIN store'[k] : store'[k][i].turn # q
      BY <2>3, <3>1, <3>2 DEF Unseen
    <3>4. DOMAIN <<>> = {}
      OBVIOUS
    <3>5. \A p \in Requests \ {q} : \A i \in DOMAIN session'[p] :
            session'[p][i].turn # q
      BY <2>3, <3>1, <3>4 DEF Unseen
    <3>6. \A i \in DOMAIN session'[q] : i <= base'[q] => session'[q][i].turn # q
      BY <2>3, <3>1 DEF Unseen
    <3> QED
      BY <3>3, <3>5, <3>6 DEF Unseen
  <2>6. \A q \in InFlight' :
          /\ Whole(session'[q], base'[q])
          /\ \A i \in (base'[q] + 2) .. Len(session'[q]) : session'[q][i].role # "user"
    BY <2>3 DEF WholeInv, InFlight
  <2> QED
    BY <2>4, <2>5, <2>6 DEF WholeInv
<1>4. ASSUME Quiet PROVE WholeInv'
  <2>1. \A q \in InFlight' : /\ Whole(session'[q], base'[q])
                             /\ \A i \in (base'[q] + 2) .. Len(session'[q]) :
                                  session'[q][i].role # "user"
    BY <1>4 DEF Quiet, WholeInv
  <2>2. ASSUME NEW q \in Requests, q \in InFlight' \/ pc'[q] = "idle"
        PROVE  Unseen(q)'
    <3>1. Unseen(q)
      BY <1>4, <2>2 DEF Quiet, WholeInv
    <3>2. DOMAIN <<>> = {}
      OBVIOUS
    <3>3. \A k \in Keys : \A i \in DOMAIN store'[k] : store'[k][i].turn # q
      BY <1>4, <3>1 DEF Quiet, Unseen
    <3>4. ASSUME NEW p \in Requests \ {q}, NEW i \in DOMAIN session'[p]
          PROVE  session'[p][i].turn # q
      <4>1. session'[p] = session[p]
        BY <1>4, <3>2, <3>4 DEF Quiet
      <4> QED
        BY <3>1, <3>4, <4>1 DEF Unseen
    <3>5. ASSUME NEW i \in DOMAIN session'[q], i <= base'[q]
          PROVE  session'[q][i].turn # q
      <4>1. session'[q] = session[q] /\ base'[q] \in {base[q], 0}
        BY <1>4, <3>2, <3>5 DEF Quiet
      <4>2. i <= base[q]
        <5>1. session[q] \in Seq(Messages) /\ base[q] \in Nat
          BY <1>0 DEF TypeOK
        <5>2. i \in Nat /\ i >= 1
          BY <3>5, <4>1, <5>1
        <5> QED
          BY <3>5, <4>1, <5>1, <5>2
      <4> QED
        BY <3>1, <3>5, <4>1, <4>2 DEF Unseen
    <3> QED
      BY <3>3, <3>4, <3>5 DEF Unseen
  <2>3. \A k \in Keys : Whole(store'[k], Len(store'[k]))
    BY <1>4 DEF Quiet, WholeInv
  <2> QED
    BY <2>1, <2>2, <2>3 DEF WholeInv
<1> QED
  BY <1>0, <1>1, <1>2, <1>3, <1>4, StepKinds

LEMMA SpecWhole == Spec => [](Inv /\ WholeInv)
<1>1. Init => WholeInv
  <2>1. Len(<<>>) = 0 /\ DOMAIN <<>> = {}
    OBVIOUS
  <2> QED
    BY <2>1 DEF Init, WholeInv, Whole, Unseen, InFlight
<1>2. WholeInv /\ Inv /\ [Next]_vars => WholeInv'
  BY NextWhole
<1> QED
  BY <1>1, <1>2, SpecInv, PTL DEF Spec

(* In every stored conversation each answer stands behind a message of its *)
(* own turn and no question is stored twice, however the turns of the      *)
(* conversation overlap: a save can lose another turn (last writer wins),  *)
(* but it never mixes two.                                                 *)
THEOREM TurnsWholeHolds == Spec => []TurnsWhole
<1>1. Inv /\ WholeInv => TurnsWhole
  <2> SUFFICES ASSUME Inv, WholeInv, NEW k \in Keys
               PROVE  \A i \in DOMAIN store[k] :
                        /\ store[k][i].role = "assistant" =>
                             i > 1 /\ store[k][i - 1].turn = store[k][i].turn
                        /\ \A j \in DOMAIN store[k] :
                             /\ store[k][i].role = "user" /\ store[k][j].role = "user"
                             /\ store[k][i].turn = store[k][j].turn
                             => i = j
    BY DEF TurnsWhole
  <2>1. Whole(store[k], Len(store[k]))
    BY DEF WholeInv
  <2>2. DOMAIN store[k] = 1 .. Len(store[k])
    <3>1. store[k] \in Seq(CleanMessages)
      BY DEF Inv, TypeInv, TypeOK
    <3> QED
      BY <3>1
  <2> QED
    BY <2>1, <2>2 DEF Whole
<1> QED
  BY <1>1, SpecWhole, PTL
-------------------------------------------------------------------------------
(* Users who wait for their answer: no message arrives while its           *)
(* conversation has a turn in flight.  Then a conversation has at most one *)
(* turn in flight, and that turn works on what is stored.                  *)
OneAtATime == \A q, r \in InFlight : Key(q) = Key(r) => q = r

LoadedStored ==
  \A r \in InFlight : /\ base[r] = Len(store[Key(r)])
                      /\ \A i \in 1 .. base[r] : session[r][i] = store[Key(r)][i]

SerialInv == OneAtATime /\ LoadedStored /\ AnsweredRemembered

LEMMA NextSerial ==
  ASSUME Overlap = FALSE, Inv, WholeInv, SerialInv, [Next]_vars
  PROVE  SerialInv'
<1>0. TypeOK /\ TypeInv
  BY DEF Inv, TypeInv
<1>1. ASSUME NEW r \in Requests, Arrive(r) PROVE SerialInv'
  <2>1. /\ UNCHANGED store /\ pc[r] = "idle" /\ pc' = [pc EXCEPT ![r] = "prompt"]
        /\ \A q \in InFlight : Key(q) # Key(r)
    BY <1>1 DEF Arrive
  <2>2. /\ session'[r] = Append(store[Key(r)], UserMessage(r))
        /\ base'[r] = Len(store[Key(r)])
        /\ \A q \in Requests \ {r} : session'[q] = session[q] /\ base'[q] = base[q]
        /\ InFlight' = InFlight \cup {r}
        /\ store[Key(r)] \in Seq(CleanMessages)
    BY <1>0, <1>1, ArrivedSession
  <2>3. OneAtATime'
    BY <2>1, <2>2 DEF SerialInv, OneAtATime
  <2>4. ASSUME NEW q \in InFlight'
        PROVE  /\ base'[q] = Len(store'[Key(q)])
               /\ \A i \in 1 .. base'[q] : session'[q][i] = store'[Key(q)][i]
    <3>1. CASE q = r
      <4>1. store[Key(r)] \in Seq(Messages)
        <5>1. CleanMessages \subseteq Messages
          BY DEF CleanMessages
        <5> QED
          BY <2>2, <5>1
      <4>2. \A i \in 1 .. Len(store[Key(r)]) :
              Append(store[Key(r)], UserMessage(r))[i] = store[Key(r)][i]
        BY <4>1, UserMessageType, AppendProperties
      <4> QED
        BY <2>1, <2>2, <3>1, <4>2
    <3>2. CASE q # r
      <4>1. q \in InFlight /\ q \in Requests \ {r}
        BY <2>2, <3>2 DEF InFlight
      <4> QED
        BY <2>1, <2>2, <4>1 DEF SerialInv, LoadedStored
    <3> QED
      BY <3>1, <3>2
  <2>5. AnsweredRemembered'
    BY <1>0, <2>1 DEF SerialInv, AnsweredRemembered, TypeOK
  <2> QED
    BY <2>3, <2>4, <2>5 DEF SerialInv, LoadedStored
<1>2. ASSUME NEW r \in Requests, NEW m \in Messages, Grows(r, m)
      PROVE  SerialInv'
  <2>1. r \in InFlight /\ TurnTranscript(r, session[r])
    BY <1>2 DEF Grows, Says, Inv, ShapeInv
  <2>2. /\ session' = [session EXCEPT ![r] = Append(session[r], m)]
        /\ UNCHANGED <<store, base>>
    BY <1>0, <1>2 DEF Grows, TypeOK
  <2>3. \E next \in {"llm", "tools"} : pc' = [pc EXCEPT ![r] = next]
    BY <1>2 DEF Grows
  <2>4. /\ InFlight' = InFlight
        /\ \A q \in Requests : pc'[q] \in {"reply", "answered"} =>
             pc[q] \in {"reply", "answered"}
    BY <1>0, <2>1, <2>3 DEF InFlight, TypeOK
  <2>5. ASSUME NEW q \in InFlight, NEW i \in 1 .. base[q]
        PROVE  session'[q][i] = session[q][i]
    <3>1. CASE q = r
      <4>1. session[r] \in Seq(Messages) /\ base[r] \in Nat /\ base[r] < Len(session[r])
        BY <1>0, <2>1 DEF TypeOK, TurnTranscript
      <4>2. i \in 1 .. Len(session[r])
        BY <2>5, <3>1, <4>1
      <4>3. Append(session[r], m)[i] = session[r][i]
        BY <4>1, <4>2, AppendProperties
      <4> QED
        BY <1>0, <2>2, <3>1, <4>3 DEF TypeOK
    <3>2. CASE q # r
      BY <1>0, <2>2, <3>2 DEF TypeOK, InFlight
    <3> QED
      BY <3>1, <3>2
  <2>6. LoadedStored'
    <3> SUFFICES ASSUME NEW q \in InFlight
                 PROVE  /\ base'[q] = Len(store'[Key(q)])
                        /\ \A i \in 1 .. base'[q] : session'[q][i] = store'[Key(q)][i]
      BY <2>4 DEF LoadedStored
    <3>1. /\ base[q] = Len(store[Key(q)])
          /\ \A i \in 1 .. base[q] : session[q][i] = store[Key(q)][i]
      BY DEF SerialInv, LoadedStored
    <3> QED
      BY <2>2, <2>5, <3>1
  <2>7. OneAtATime' /\ AnsweredRemembered'
    BY <2>2, <2>4 DEF SerialInv, OneAtATime, AnsweredRemembered
  <2> QED
    BY <2>6, <2>7 DEF SerialInv
<1>3. ASSUME NEW r \in Requests, NEW m \in Messages, Ends(r, m)
      PROVE  SerialInv'
  <2> DEFINE s == Compress(Append(session[r], m))
  <2>1. /\ store' = [store EXCEPT ![Key(r)] = s]
        /\ session' = [session EXCEPT ![r] = <<>>]
        /\ base' = [base EXCEPT ![r] = 0]
        /\ pc' = [pc EXCEPT ![r] = "reply"]
        /\ Says(r, m) /\ r \in InFlight /\ Key(r) \in Keys
    BY <1>3, KeyType DEF Ends, Finish, Says
  <2>2. SavedTranscript(r, s) /\ s[base[r] + 1] = UserMessage(r)
    BY <2>1, SavedTurn
  <2>3. base[r] \in Nat /\ Len(s) \in Nat /\ DOMAIN s = 1 .. Len(s) /\ base[r] < Len(s)
    <3>1. s \in Seq(CleanMessages) /\ base[r] \in Nat /\ base[r] < Len(s)
      BY <1>0, <2>2 DEF SavedTranscript, TypeOK
    <3> QED
      BY <3>1
  <2> HIDE DEF s
  <2>4. /\ store'[Key(r)] = s
        /\ \A k \in Keys \ {Key(r)} : store'[k] = store[k]
        /\ \A q \in Requests \ {r} : session'[q] = session[q] /\ base'[q] = base[q]
        /\ \A q \in InFlight' : q \in InFlight /\ q # r /\ q \in Requests
        /\ \A q \in Requests : pc'[q] \in {"reply", "answered"} =>
             q = r \/ pc[q] \in {"reply", "answered"}
    BY <1>0, <2>1 DEF TypeOK, InFlight
  <2>5. \A q \in InFlight' : Key(q) # Key(r) /\ Key(q) \in Keys
    BY <2>1, <2>4, KeyType DEF SerialInv, OneAtATime
  <2>6. OneAtATime' /\ LoadedStored'
    BY <2>4, <2>5 DEF SerialInv, OneAtATime, LoadedStored
  <2>7. ASSUME NEW q \in Requests, pc'[q] \in {"reply", "answered"}
        PROVE  \E i \in DOMAIN store'[Key(q)] : store'[Key(q)][i] = UserMessage(q)
    <3>1. CASE q = r
      <4>1. base[r] + 1 \in DOMAIN s
        BY <2>3
      <4> QED
        BY <2>2, <2>4, <3>1, <4>1
    <3>2. CASE q # r
      <4>1. PICK i \in DOMAIN store[Key(q)] : store[Key(q)][i] = UserMessage(q)
        BY <2>4, <2>7, <3>2 DEF SerialInv, AnsweredRemembered
      <4>2. CASE Key(q) = Key(r)
        <5>1. i \in 1 .. base[r] /\ session[r][i] = store[Key(r)][i]
          <6>1. store[Key(r)] \in Seq(CleanMessages)
            BY <1>0, <2>1 DEF TypeOK
          <6>2. base[r] = Len(store[Key(r)])
            BY <2>1 DEF SerialInv, LoadedStored
          <6>3. i \in 1 .. base[r]
            BY <4>1, <4>2, <6>1, <6>2
          <6> QED
            BY <2>1, <6>3 DEF SerialInv, LoadedStored
        <5>2. s[i] = session[r][i] /\ i \in DOMAIN s
          BY <2>2, <2>3, <5>1 DEF SavedTranscript
        <5> QED
          BY <2>4, <4>1, <4>2, <5>1, <5>2
      <4>3. CASE Key(q) # Key(r)
        BY <2>4, <4>1, <4>3, KeyType
      <4> QED
        BY <4>2, <4>3
    <3> QED
      BY <3>1, <3>2
  <2> QED
    BY <2>6, <2>7 DEF SerialInv, AnsweredRemembered
<1>4. ASSUME Quiet PROVE SerialInv'
  BY <1>4 DEF Quiet, SerialInv, OneAtATime, LoadedStored, AnsweredRemembered
<1> QED
  BY <1>0, <1>1, <1>2, <1>3, <1>4, StepKinds

LEMMA SpecSerial ==
  ASSUME Overlap = FALSE
  PROVE  Spec => [](Inv /\ WholeInv /\ SerialInv)
<1>1. Init => SerialInv
  BY DEF Init, SerialInv, OneAtATime, LoadedStored, AnsweredRemembered, InFlight
<1>2. SerialInv /\ WholeInv /\ Inv /\ [Next]_vars => SerialInv'
  BY NextSerial
<1> QED
  BY <1>1, <1>2, SpecWhole, PTL DEF Spec

(* A question that was answered is part of its stored conversation from    *)
(* then on, through crashes and the failure of later turns, as long as the *)
(* users of a conversation wait for their answers.  (ConvLostUpdate shows  *)
(* that it fails when they do not.)                                        *)
THEOREM AnsweredRememberedHolds ==
  ASSUME Overlap = FALSE
  PROVE  Spec => []AnsweredRemembered
<1>1. SerialInv => AnsweredRemembered
  BY DEF SerialInv
<1> QED
  BY <1>1, SpecSerial, PTL
-------------------------------------------------------------------------------
(* The turns of a transcript with one more question behind the others.     *)
LEMMA TurnsOfType ==
  ASSUME NEW t \in Seq(Messages)
  PROVE  /\ TurnsOf(t) \in Seq(Requests)
         /\ \A i \in DOMAIN TurnsOf(t) :
              \E j \in DOMAIN t : TurnsOf(t)[i] = t[j].turn
<1> DEFINE S == {i \in DOMAIN t : t[i].role = "user"}
           asks == Pick(t, S)
           n == Cardinality(S)
<1>1. S \in SUBSET (1 .. Len(t)) /\ S \subseteq DOMAIN t
  OBVIOUS
<1> HIDE DEF S
<1>2. /\ asks \in Seq(Messages) /\ Len(asks) = n /\ n \in Nat
      /\ \A k \in 1 .. n : Nth(S, k) \in DOMAIN t /\ asks[k] = t[Nth(S, k)]
  BY <1>1, PickProperties
<1>3. TurnsOf(t) = [i \in DOMAIN asks |-> asks[i].turn]
  BY DEF TurnsOf, S
<1> HIDE DEF asks, n
<1>4. DOMAIN asks = 1 .. n /\ \A i \in 1 .. n : asks[i] \in Messages
  BY <1>2, ElementOfSeq
<1>5. \A i \in 1 .. n : asks[i].turn \in Requests
  BY <1>4 DEF Messages
<1>6. TurnsOf(t) \in Seq(Requests)
  BY <1>2, <1>3, <1>4, <1>5
<1> QED
  BY <1>2, <1>3, <1>4, <1>6

(* PickGrow for transcripts.                                               *)
LEMMA PickMessages ==
  ASSUME NEW t \in Seq(Messages), NEW s \in Seq(Messages),
         NEW S \in SUBSET (1 .. Len(t)), NEW b \in 1 .. Len(s), Behind(t, S, s, b)
  PROVE  Pick(s, S \cup {b}) = Append(Pick(t, S), s[b])
BY PickGrow

LEMMA TurnsOfGrow ==
  ASSUME NEW t \in Seq(Messages), NEW s \in Seq(Messages), NEW r \in Requests,
         Len(t) < Len(s),
         \A i \in 1 .. Len(t) : s[i] = t[i],
         s[Len(t) + 1] = UserMessage(r),
         \A i \in (Len(t) + 2) .. Len(s) : s[i].role # "user"
  PROVE  TurnsOf(s) = Append(TurnsOf(t), r)
<1> DEFINE n == Len(t)
           S == {i \in DOMAIN t : t[i].role = "user"}
           R == {i \in DOMAIN s : s[i].role = "user"}
           asks == Pick(t, S)
           more == Pick(s, R)
<1>1. /\ n \in Nat /\ Len(s) \in Nat /\ n < Len(s)
      /\ DOMAIN t = 1 .. n /\ DOMAIN s = 1 .. Len(s)
  OBVIOUS
<1>2. UserMessage(r).role = "user" /\ UserMessage(r).turn = r
  BY DEF UserMessage
<1>3. \A i \in DOMAIN s : i \in 1 .. n \/ i = n + 1 \/ i \in (n + 2) .. Len(s)
  BY <1>1
<1>4. R = S \cup {n + 1}
  BY <1>1, <1>2, <1>3
<1>5. /\ S \in SUBSET (1 .. Len(t)) /\ n + 1 \in 1 .. Len(s)
      /\ \A i \in S : i < n + 1 /\ s[i] = t[i]
  BY <1>1
<1>6. TurnsOf(t) = [i \in DOMAIN asks |-> asks[i].turn]
  BY DEF TurnsOf
<1>7. TurnsOf(s) = [i \in DOMAIN more |-> more[i].turn]
  BY DEF TurnsOf
<1>8. asks \in Seq(Messages)
  BY <1>5, PickProperties
<1> HIDE DEF n, S, R, asks
<1>9. more = Append(asks, s[n + 1])
  <2> DEFINE b == n + 1
  <2>1. /\ S \in SUBSET (1 .. Len(t)) /\ b \in 1 .. Len(s)
        /\ \A i \in S : i < b /\ s[i] = t[i]
    BY <1>5
  <2> HIDE DEF b, more
  <2>2. Behind(t, S, s, b)
    BY <2>1 DEF Behind
  <2>3. Pick(s, S \cup {b}) = Append(Pick(t, S), s[b])
    BY <2>1, <2>2, PickMessages
  <2> QED
    BY <1>4, <2>3 DEF asks, more, b
<1>10. s[n + 1] = UserMessage(r)
  BY DEF n
<1> HIDE DEF more
<1>11. /\ Len(more) = Len(asks) + 1 /\ Len(asks) \in Nat
       /\ DOMAIN more = 1 .. (Len(asks) + 1) /\ DOMAIN asks = 1 .. Len(asks)
       /\ \A i \in 1 .. Len(asks) : more[i] = asks[i]
       /\ more[Len(asks) + 1] = UserMessage(r)
  BY <1>8, <1>9, <1>10, UserMessageType, AppendProperties
<1>12. /\ TurnsOf(t) \in Seq(Requests) /\ TurnsOf(s) \in Seq(Requests)
  BY TurnsOfType
<1>13. /\ Len(TurnsOf(t)) = Len(asks) /\ Len(TurnsOf(s)) = Len(asks) + 1
       /\ \A i \in 1 .. Len(asks) : TurnsOf(s)[i] = TurnsOf(t)[i]
       /\ TurnsOf(s)[Len(asks) + 1] = r
  BY <1>2, <1>6, <1>7, <1>11, <1>12
<1> DEFINE v == Append(TurnsOf(t), r)
<1>14. /\ v \in Seq(Requests) /\ Len(v) = Len(asks) + 1
       /\ \A i \in 1 .. Len(asks) : v[i] = TurnsOf(t)[i]
       /\ v[Len(asks) + 1] = r
  BY <1>12, <1>13, AppendProperties
<1> HIDE DEF v
<1>15. \A i \in 1 .. Len(v) : TurnsOf(s)[i] = v[i]
  BY <1>11, <1>13, <1>14
<1>16. TurnsOf(s) = v
  BY <1>12, <1>13, <1>14, <1>15, SeqEqual
<1> QED
  BY <1>16 DEF v

(* The log of ConversationLog: who was answered where, in what order.      *)
AbstractLog == [k \in Keys |-> TurnsOf(store[k])]

(* The end of a turn adds the turn to the log of its conversation.         *)
LEMMA EndCommits ==
  ASSUME Inv, WholeInv, SerialInv, NEW r \in Requests, NEW m \in Messages, Ends(r, m)
  PROVE  Log!Commit(r)
<1> DEFINE s == Compress(Append(session[r], m))
           t == store[Key(r)]
           place == [q \in Requests |-> Key(q)]
<1>0. TypeOK
  BY DEF Inv, TypeInv
<1>1. /\ store' = [store EXCEPT ![Key(r)] = s]
      /\ Says(r, m) /\ r \in InFlight /\ Key(r) \in Keys
  BY KeyType DEF Ends, Finish, Says
<1>2. /\ SavedTranscript(r, s) /\ s[base[r] + 1] = UserMessage(r)
      /\ \A i \in (base[r] + 2) .. Len(s) : s[i].role # "user"
  BY <1>1, SavedTurn
<1>3. base[r] = Len(t) /\ \A i \in 1 .. base[r] : session[r][i] = t[i]
  BY <1>1 DEF SerialInv, LoadedStored
<1>4. \A i \in DOMAIN t : t[i].turn # r
  BY <1>1 DEF WholeInv, Unseen
<1>5. t \in Seq(Messages) /\ s \in Seq(Messages) /\ Len(t) < Len(s)
  <2>1. t \in Seq(CleanMessages) /\ s \in Seq(CleanMessages)
    BY <1>0, <1>1, <1>2 DEF TypeOK, SavedTranscript
  <2>2. CleanMessages \subseteq Messages
    BY DEF CleanMessages
  <2> QED
    BY <1>2, <1>3, <2>1, <2>2 DEF SavedTranscript
<1>6. /\ \A i \in 1 .. Len(t) : s[i] = t[i]
      /\ s[Len(t) + 1] = UserMessage(r)
      /\ \A i \in (Len(t) + 2) .. Len(s) : s[i].role # "user"
  BY <1>2, <1>3 DEF SavedTranscript
<1> HIDE DEF s
<1>7. TurnsOf(s) = Append(TurnsOf(t), r)
  BY <1>5, <1>6, TurnsOfGrow
<1>8. \A i \in DOMAIN TurnsOf(t) : TurnsOf(t)[i] # r
  BY <1>4, <1>5, TurnsOfType
<1>9. place[r] = Key(r) /\ AbstractLog[place[r]] = TurnsOf(t)
  BY <1>1 DEF AbstractLog
<1>10. [k \in Keys |-> TurnsOf(store'[k])]
         = [AbstractLog EXCEPT ![place[r]] = Append(AbstractLog[place[r]], r)]
  <2>1. \A k \in Keys : store'[k] = IF k = Key(r) THEN s ELSE store[k]
    BY <1>0, <1>1 DEF TypeOK
  <2>2. \A k \in Keys : TurnsOf(store'[k]) =
          IF k = Key(r) THEN Append(TurnsOf(t), r) ELSE TurnsOf(store[k])
    BY <1>7, <2>1
  <2> QED
    BY <1>9, <2>2 DEF AbstractLog
<1>11. ~Log!Logged(r)
  BY <1>8, <1>9 DEF Log!Logged, AbstractLog
<1> QED
  BY <1>10, <1>11 DEF Log!Commit, AbstractLog

LEMMA LogStep ==
  Inv /\ WholeInv /\ SerialInv /\ [Next]_vars => [Log!Next]_AbstractLog
<1> SUFFICES ASSUME Inv, WholeInv, SerialInv, [Next]_vars
             PROVE  Log!Next \/ UNCHANGED AbstractLog
  OBVIOUS
<1>1. UNCHANGED store => UNCHANGED AbstractLog
  BY DEF AbstractLog
<1>2. ASSUME NEW r \in Requests, Arrive(r) PROVE UNCHANGED store
  BY <1>2 DEF Arrive
<1>3. ASSUME NEW r \in Requests, NEW m \in Messages, Grows(r, m)
      PROVE  UNCHANGED store
  BY <1>3 DEF Grows
<1>4. ASSUME NEW r \in Requests, NEW m \in Messages, Ends(r, m)
      PROVE  Log!Next
  BY <1>4, EndCommits DEF Log!Next
<1>5. Quiet => UNCHANGED store
  BY DEF Quiet
<1> QED
  BY <1>1, <1>2, <1>3, <1>4, <1>5, StepKinds DEF Inv

(* Conversations implements ConversationLog when users wait for their      *)
(* answers: whatever the tools, the compression, crashes and failing       *)
(* replies do, what is stored of a conversation is the log of the turns    *)
(* answered in it, which only grows, by one turn at a time, each once.     *)
THEOREM AppendsTurnsHolds ==
  ASSUME Overlap = FALSE
  PROVE  Spec => AppendsTurns
<1>1. Init => Log!Init
  <2> SUFFICES ASSUME Init PROVE [k \in Keys |-> TurnsOf(store[k])] = [k \in Keys |-> <<>>]
    BY DEF Log!Init
  <2>1. \A k \in Keys : store[k] = <<>>
    BY DEF Init
  <2>2. TurnsOf(<<>>) = <<>>
    <3>1. <<>> \in Seq(Messages) /\ DOMAIN <<>> = {} /\ Len(<<>>) = 0
      OBVIOUS
    <3>2. TurnsOf(<<>>) \in Seq(Requests)
      BY <3>1, TurnsOfType
    <3>3. DOMAIN TurnsOf(<<>>) = {}
      BY <3>1, TurnsOfType
    <3> QED
      BY <3>2, <3>3
  <2> QED
    BY <2>1, <2>2
<1>2. Inv /\ WholeInv /\ SerialInv /\ [Next]_vars => [Log!Next]_AbstractLog
  BY LogStep
<1> QED
  BY <1>1, <1>2, SpecSerial, PTL DEF Spec, AppendsTurns, Log!Spec, AbstractLog
===============================================================================
