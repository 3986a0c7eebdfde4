-------------------------- MODULE LspClient_proofs --------------------------
(***************************************************************************)
(* Proofs about the client of a language server, for any number of         *)
(* documents, edits and requests: every request is accounted for, the      *)
(* server that has read what was sent to it has the text of the client,    *)
(* the answers that the client applies are about the text it has, and the  *)
(* diagnostics it displays are replaced in the order of their texts.       *)
(***************************************************************************)
EXTENDS LspClient, QueueLemmas, FiniteSetTheorems

(* What is sent, what comes back, what the server knows, and the handlers. *)
Message ==
  [method : {"initialize", "initialized", "didOpen", "didChange", "didClose", "semanticTokens", "hover"},
   id : Int, doc : Docs \cup {None}, version : 0..MaxVersion, text : 0..MaxText, tag : 0..MaxOpens,
   changes : Seq(1..MaxText)]
Answer ==
  [method : {"reply", "publishDiagnostics"}, id : Int, doc : Docs \cup {None}, outcome : {"result", "error"},
   version : None..MaxVersion, text : None..MaxText, tag : 0..MaxOpens]
Knowledge == [open : BOOLEAN, version : 0..MaxVersion, text : None..MaxText, tag : 0..MaxOpens]
Handlers ==
  [id : Int, kind : {"initialize", "highlight", "hover", "cancelled"}, doc : Docs \cup {None}, tag : 0..MaxOpens]

DocumentsInv ==
  /\ opens \in [Docs -> 0..MaxOpens]
  /\ text \in [Docs -> 0..MaxText]
  /\ version \in [Docs -> 0..MaxVersion]
  /\ changes \in [Docs -> Seq(1..MaxText)]
  /\ \A d \in Docs : tag[d] <= opens[d]

(* Until the client is shut down or an assertion fails: the state of the   *)
(* client, and what is under way in both directions.  There is an id left  *)
(* for the shutdown request.                                               *)
ConversationInv ==
  /\ main = "stopping" => nextId \in 1..MaxRequests
  /\ main = "idle" =>
       /\ state \in {"initializing", "ready"} /\ nextId \in 1..MaxRequests
       /\ state = "initializing" => \A d \in Docs : sent[d] = "no"
       /\ toServer \in Seq(Message) /\ toClient \in Seq(Answer) /\ posted \in Seq(Answer)
       /\ server \in [Docs -> Knowledge]

(* The handlers that will lower the count of queued highlights.            *)
Highlights == {h \in handlers : h.kind = "highlight"}
HighlightsOf(d) == {h \in Highlights : h.doc = d /\ h.tag = tag[d]}
HandlersInv ==
  /\ handlers \subseteq Handlers
  /\ IsFiniteSet(Highlights)
  /\ \A h \in handlers : h.kind \in {"highlight", "hover", "cancelled"} => h.doc \in Docs
  /\ \A h \in Highlights : 0 < h.tag /\ h.tag <= opens[h.doc]

(* What the server makes of a message, as far as document d goes, and of   *)
(* all messages of a queue: seen[i] is what it knows after i of them.      *)
Understood(s, m) ==
  IF m.method = "didOpen" THEN Opened(m)
  ELSE IF m.method = "didChange" /\ s.open THEN Changed(s, m)
  ELSE Closed
After(s, m, d) == IF m.doc = d /\ m.id = None THEN Understood(s, m) ELSE s
Leads(s, q, t, d) ==
  \E seen \in [0..Len(q) -> Knowledge] :
    /\ seen[0] = s /\ seen[Len(q)] = t
    /\ \A i \in 1..Len(q) : seen[i] = After(seen[i - 1], q[i], d)

(* Once it has read everything, the server has the text of each document.  *)
SyncInv ==
  main = "idle" =>
    \A d \in Docs : \E t \in Knowledge :
      /\ Leads(server[d], toServer, t, d)
      /\ tag[d] # 0 /\ sent[d] # "no" => t.open /\ t.text = text[d] /\ t.version = version[d]

(* RequestsInv apart from the types.                                       *)
AccountsInv ==
  main \notin {"done", "asserted", "crashed"} =>
    \A d \in Docs :
      /\ hover[d] # None => \E h \in handlers : h.id = hover[d] /\ h.kind = "hover" /\ h.doc = d
      /\ tag[d] # 0 => queued[d] = Cardinality(HighlightsOf(d))

ClientInv == TypeOK /\ DocumentsInv /\ ConversationInv /\ HandlersInv /\ AccountsInv /\ SyncInv

-----------------------------------------------------------------------------
(* Facts about what the server makes of messages.                          *)
LEMMA RecordsChange ==
  /\ \A m \in Message, c \in Seq(1..MaxText) : [m EXCEPT !.changes = c] \in Message
  /\ \A m \in Message, n \in Int : [m EXCEPT !.id = n] \in Message
  /\ \A s \in Knowledge, v \in 0..MaxVersion, n \in None..MaxText :
       [s EXCEPT !.version = v, !.text = n] \in Knowledge
<1>1. \A m \in Message, c \in Seq(1..MaxText) : [m EXCEPT !.changes = c] \in Message
  BY DEF Message
<1>2. \A m \in Message, n \in Int : [m EXCEPT !.id = n] \in Message
  BY DEF Message
<1>3. \A s \in Knowledge, v \in 0..MaxVersion, n \in None..MaxText :
        [s EXCEPT !.version = v, !.text = n] \in Knowledge
  BY DEF Knowledge
<1> QED   BY <1>1, <1>2, <1>3

LEMMA ClosedIsKnowledge == Closed \in Knowledge
BY BoundsAssumption DEF Closed, Knowledge, None

LEMMA UnderstoodType ==
  ASSUME NEW s \in Knowledge, NEW m \in Message
  PROVE  Understood(s, m) \in Knowledge
<1>1. Opened(m) \in Knowledge
  <2>1. 0..MaxText \subseteq None..MaxText
    BY BoundsAssumption DEF None
  <2>2. m.version \in 0..MaxVersion /\ m.text \in None..MaxText /\ m.tag \in 0..MaxOpens
    BY <2>1 DEF Message
  <2> QED   BY <2>2 DEF Opened, Knowledge
<1>2. Changed(s, m) \in Knowledge
  <2> DEFINE n == Len(m.changes)
  <2>1. n \in Nat /\ m.version \in 0..MaxVersion /\ m.changes \in [1..n -> 1..MaxText]
    BY LenProperties DEF Message
  <2>2. s.text \in None..MaxText
    BY DEF Knowledge
  <2>3. m.changes = [i \in 1..n |-> s.text + i] => s.text + n \in None..MaxText
    <3> SUFFICES ASSUME m.changes = [i \in 1..n |-> s.text + i], n # 0
                 PROVE  s.text + n \in None..MaxText
      BY <2>1, <2>2, BoundsAssumption DEF None
    <3>1. n \in 1..n /\ m.changes[n] = s.text + n
      BY <2>1
    <3>2. m.changes[n] \in 1..MaxText
      BY <2>1, <3>1
    <3> QED   BY <3>1, <3>2, BoundsAssumption DEF None
  <2>4. None \in None..MaxText
    BY BoundsAssumption DEF None
  <2> QED   BY <2>1, <2>3, <2>4, RecordsChange DEF Changed
<1> QED   BY <1>1, <1>2, ClosedIsKnowledge DEF Understood

LEMMA AfterType ==
  ASSUME NEW s \in Knowledge, NEW m \in Message, NEW d
  PROVE  After(s, m, d) \in Knowledge
BY UnderstoodType DEF After

(* A message is sent: the server will see it last.                         *)
LEMMA LeadsAppend ==
  ASSUME NEW s, NEW q \in Seq(Message), NEW t, NEW d, Leads(s, q, t, d), NEW m \in Message
  PROVE  Leads(s, Append(q, m), After(t, m, d), d)
<1>1. PICK seen \in [0..Len(q) -> Knowledge] :
        /\ seen[0] = s /\ seen[Len(q)] = t
        /\ \A i \in 1..Len(q) : seen[i] = After(seen[i - 1], q[i], d)
  BY DEF Leads
<1> DEFINE n == Len(q)
           r == Append(q, m)
           last == After(t, m, d)
           next == [i \in 0..n + 1 |-> IF i <= n THEN seen[i] ELSE last]
<1>2. /\ n \in Nat /\ Len(r) = n + 1 /\ r[n + 1] = m
      /\ \A i \in 1..n : r[i] = q[i]
  BY AppendProperties, LenProperties
<1>3. last \in Knowledge
  <2>1. t \in Knowledge
    BY <1>1, <1>2
  <2> QED   BY <2>1, AfterType
<1> HIDE DEF n, r, last
<1>4. next \in [0..Len(r) -> Knowledge]
  BY <1>1, <1>2, <1>3 DEF n
<1>5. next[0] = s /\ next[Len(r)] = last
  BY <1>1, <1>2
<1>6. \A i \in 1..Len(r) : next[i] = After(next[i - 1], r[i], d)
  <2> SUFFICES ASSUME NEW i \in 1..Len(r) PROVE next[i] = After(next[i - 1], r[i], d)
    OBVIOUS
  <2>1. CASE i <= n
    <3>1. i \in 1..n /\ i - 1 \in 0..n + 1 /\ i - 1 <= n /\ i \in 0..n + 1
      BY <1>2, <2>1
    <3>2. next[i] = seen[i] /\ next[i - 1] = seen[i - 1] /\ r[i] = q[i]
      BY <1>2, <3>1
    <3> QED   BY <1>1, <3>1, <3>2 DEF n
  <2>2. CASE ~(i <= n)
    <3>1. i = n + 1 /\ i - 1 = n
      BY <1>2, <2>2
    <3>2. next[i] = last /\ next[i - 1] = t /\ r[i] = m
      BY <1>1, <1>2, <3>1 DEF n
    <3> QED   BY <3>2 DEF last
  <2> QED   BY <2>1, <2>2
<1> HIDE DEF next
<1> QED   BY <1>4, <1>5, <1>6 DEF Leads, r, last

(* The server handles a message: it has seen the first one.                *)
LEMMA LeadsTail ==
  ASSUME NEW s, NEW q \in Seq(Message), q # <<>>, NEW t, NEW d, Leads(s, q, t, d)
  PROVE  s \in Knowledge /\ Leads(After(s, Head(q), d), Tail(q), t, d)
<1>1. PICK seen \in [0..Len(q) -> Knowledge] :
        /\ seen[0] = s /\ seen[Len(q)] = t
        /\ \A i \in 1..Len(q) : seen[i] = After(seen[i - 1], q[i], d)
  BY DEF Leads
<1> DEFINE n == Len(q)
           r == Tail(q)
           next == [i \in 0..n - 1 |-> seen[i + 1]]
<1>2. /\ n \in Nat /\ n > 0 /\ Len(r) = n - 1 /\ Head(q) = q[1]
      /\ \A i \in 1..n - 1 : r[i] = q[i + 1]
  BY HeadTailProperties, LenProperties, EmptySeq
<1> HIDE DEF n, r
<1>3. next \in [0..Len(r) -> Knowledge]
  BY <1>1, <1>2 DEF n
<1>4. next[0] = After(s, Head(q), d) /\ next[Len(r)] = t
  <2>1. next[0] = seen[1] /\ next[n - 1] = seen[n]
    BY <1>2
  <2>2. seen[1] = After(seen[0], q[1], d)
    BY <1>1, <1>2 DEF n
  <2> QED   BY <1>1, <1>2, <2>1, <2>2 DEF n
<1>5. \A i \in 1..Len(r) : next[i] = After(next[i - 1], r[i], d)
  <2> SUFFICES ASSUME NEW i \in 1..Len(r) PROVE next[i] = After(next[i - 1], r[i], d)
    OBVIOUS
  <2>1. i \in 1..n - 1 /\ i + 1 \in 1..n /\ i - 1 \in 0..n - 1 /\ (i + 1) - 1 = i /\ (i - 1) + 1 = i
    BY <1>2
  <2>2. next[i] = seen[i + 1] /\ next[i - 1] = seen[i] /\ r[i] = q[i + 1]
    BY <1>2, <2>1
  <2>3. seen[i + 1] = After(seen[(i + 1) - 1], q[i + 1], d)
    BY <1>1, <2>1 DEF n
  <2> QED   BY <2>1, <2>2, <2>3
<1>6. s \in Knowledge
  BY <1>1, <1>2 DEF n
<1> HIDE DEF next
<1> QED   BY <1>3, <1>4, <1>5, <1>6 DEF Leads, r

(* What is not about a document leaves what the server knows of it.        *)
LEMMA LeadsNowhere ==
  ASSUME NEW s, NEW q \in Seq(Message), NEW t, NEW d, Leads(s, q, t, d), \A i \in 1..Len(q) : q[i].doc # d
  PROVE  t = s
<1>1. PICK seen \in [0..Len(q) -> Knowledge] :
        /\ seen[0] = s /\ seen[Len(q)] = t
        /\ \A i \in 1..Len(q) : seen[i] = After(seen[i - 1], q[i], d)
  BY DEF Leads
<1> DEFINE same == {n \in Nat : n <= Len(q) => seen[n] = s}
<1>2. Len(q) \in Nat
  BY LenProperties
<1>3. 0 \in same
  BY <1>1
<1>4. \A n \in Nat : n \in same => n + 1 \in same
  <2> SUFFICES ASSUME NEW n \in Nat, n \in same, n + 1 <= Len(q) PROVE seen[n + 1] = s
    OBVIOUS
  <2>1. n + 1 \in 1..Len(q) /\ (n + 1) - 1 = n /\ n <= Len(q)
    BY <1>2
  <2>2. seen[n + 1] = After(seen[n], q[n + 1], d) /\ seen[n] = s
    BY <1>1, <2>1
  <2> QED   BY <2>1, <2>2 DEF After
<1> HIDE DEF same
<1>5. Len(q) \in same
  BY <1>2, <1>3, <1>4, InductionOnNumbers
<1> QED   BY <1>1, <1>2, <1>5 DEF same

LEMMA TwoAreAppended ==
  ASSUME NEW q \in Seq(Message), NEW m \in Message, NEW n \in Message
  PROVE  /\ q \o <<m>> = Append(q, m) /\ q \o (<<m>> \o <<n>>) = Append(Append(q, m), n)
         /\ Append(q, m) \in Seq(Message) /\ Append(Append(q, m), n) \in Seq(Message)
<1>1. <<m>> \in Seq(Message) /\ <<n>> \in Seq(Message)
  OBVIOUS
<1>2. q \o (<<m>> \o <<n>>) = (q \o <<m>>) \o <<n>>
  <2>1. \A a, b \in Seq(Message) : (q \o a) \o b = q \o (a \o b)
    BY ConcatAssociative
  <2> QED   BY <1>1, <2>1
<1>3. q \o <<m>> = Append(q, m) /\ Append(q, m) \in Seq(Message)
  BY AppendProperties, AppendIsConcat, Zenon
<1>4. Append(q, m) \o <<n>> = Append(Append(q, m), n) /\ Append(Append(q, m), n) \in Seq(Message)
  BY <1>3, AppendProperties, AppendIsConcat, Zenon
<1> QED   BY <1>2, <1>3, <1>4

LEMMA SentOne ==
  ASSUME NEW q \in Seq(Message), NEW m \in Message
  PROVE  /\ q \o <<m>> \in Seq(Message)
         /\ \A s, t, d : Leads(s, q, t, d) => Leads(s, q \o <<m>>, After(t, m, d), d)
<1>1. q \o <<m>> = Append(q, m) /\ Append(q, m) \in Seq(Message)
  BY AppendProperties, AppendIsConcat, Zenon
<1> QED   BY <1>1, LeadsAppend, Zenon

LEMMA SentPair ==
  ASSUME NEW q \in Seq(Message), NEW m \in Message, NEW n \in Message
  PROVE  /\ q \o (<<m>> \o <<n>>) \in Seq(Message)
         /\ \A s, t, d : Leads(s, q, t, d) => Leads(s, q \o (<<m>> \o <<n>>), After(After(t, m, d), n, d), d)
<1>1. /\ q \o (<<m>> \o <<n>>) = Append(Append(q, m), n)
      /\ Append(q, m) \in Seq(Message) /\ Append(Append(q, m), n) \in Seq(Message)
  BY TwoAreAppended, Zenon
<1> QED   BY <1>1, LeadsAppend, Zenon

LEMMA PairIsConcat ==
  ASSUME NEW m \in Message, NEW n \in Message
  PROVE  <<m, n>> = <<m>> \o <<n>>
<1>1. <<m>> \in Seq(Message) /\ <<n>> \in Seq(Message) /\ <<m, n>> \in Seq(Message)
  OBVIOUS
<1>2. /\ <<m>> \o <<n>> \in Seq(Message) /\ Len(<<m>> \o <<n>>) = 2
      /\ (<<m>> \o <<n>>)[1] = m /\ (<<m>> \o <<n>>)[2] = n
  BY <1>1, ConcatProperties
<1>3. /\ Len(<<m, n>>) = Len(<<m>> \o <<n>>)
      /\ \A i \in 1..Len(<<m, n>>) : <<m, n>>[i] = (<<m>> \o <<n>>)[i]
  BY <1>2
<1>4. <<m>> \o <<n>> \in Seq(Message)
  BY <1>2
<1> QED   BY <1>1, <1>3, <1>4, SeqEqual, Zenon

-----------------------------------------------------------------------------
(* The steps keep the invariant.                                           *)
LEMMA InitKeepsInv == Init => ClientInv
<1> SUFFICES ASSUME Init PROVE ClientInv
  OBVIOUS
<1> USE BoundsAssumption DEF Init, None
<1>1. TypeOK
  BY DEF TypeOK
<1>2. DocumentsInv
  <2>1. <<>> \in Seq(1..MaxText)
    OBVIOUS
  <2> QED   BY <2>1 DEF DocumentsInv
<1>3. Bare("initialize", 0) \in Message
  BY DEF Bare, Message
<1>4. ConversationInv
  <2>1. toServer \in Seq(Message) /\ toClient \in Seq(Answer) /\ posted \in Seq(Answer)
    BY <1>3
  <2>2. server \in [Docs -> Knowledge]
    BY ClosedIsKnowledge
  <2> QED   BY <2>1, <2>2 DEF ConversationInv
<1>5. HandlersInv
  <2>1. Highlights = {}
    BY DEF Highlights
  <2> QED   BY <2>1, FS_EmptySet DEF HandlersInv, Handlers
<1>6. AccountsInv
  BY DEF AccountsInv
<1>7. SyncInv
  <2> SUFFICES ASSUME NEW d \in Docs PROVE Leads(server[d], toServer, Closed, d)
    BY ClosedIsKnowledge DEF SyncInv
  <2> DEFINE seen == [i \in 0..1 |-> Closed]
  <2>1. Len(toServer) = 1 /\ toServer[1] = Bare("initialize", 0) /\ server[d] = Closed
    OBVIOUS
  <2>2. After(Closed, toServer[1], d) = Closed
    BY <2>1 DEF After, Bare
  <2>3. seen \in [0..Len(toServer) -> Knowledge]
    BY <2>1, ClosedIsKnowledge
  <2>4. seen[0] = server[d] /\ seen[Len(toServer)] = Closed
    BY <2>1
  <2>5. \A i \in 1..Len(toServer) : seen[i] = After(seen[i - 1], toServer[i], d)
    BY <2>1, <2>2
  <2> HIDE DEF seen, Init
  <2> QED   BY <2>3, <2>4, <2>5 DEF Leads
<1> QED   BY <1>1, <1>2, <1>4, <1>5, <1>6, <1>7 DEF ClientInv

LEMMA BoundsAreNat ==
  /\ MaxText \in Nat /\ MaxChanges \in Nat /\ MaxVersion \in Nat /\ MaxOpens \in Nat
  /\ MaxRequests \in Nat \ {0} /\ None = -1 /\ None \notin Docs
BY BoundsAssumption DEF None

LEMMA NoneOfThem ==
  /\ 0 \in None..MaxVersion /\ 0 \in 0..MaxOpens /\ 0 \in 0..MaxText /\ 0 \in None..MaxText
  /\ \A m \in Message : m.id \in Int
<1>1. 0 \in None..MaxVersion /\ 0 \in 0..MaxOpens /\ 0 \in 0..MaxText /\ 0 \in None..MaxText
  BY BoundsAssumption DEF None
<1>2. \A m \in Message : m.id \in Int
  BY DEF Message
<1> QED   BY <1>1, <1>2

LEMMA UnchangedAccounts ==
  ASSUME HandlersInv, AccountsInv, UNCHANGED <<handlers, main, tag, opens, queued, hover>>
  PROVE  HandlersInv' /\ AccountsInv'
BY DEF HandlersInv, AccountsInv, Highlights, HighlightsOf

(* What the server answers to the first message of the queue, if anything: *)
(* a reply to it, or diagnostics of what it then knows.                    *)
Replies(m, a) ==
  /\ m.id # None /\ a.method = "reply"
  /\ m.doc \in Docs /\ a.outcome = "result" => server[m.doc].open /\ a.text = server[m.doc].text
Publishes(m, a) ==
  /\ m.id = None /\ a.method = "publishDiagnostics" /\ a.doc = m.doc /\ m.doc \in Docs
  /\ server'[m.doc].open
  /\ a.version \in {None, server'[m.doc].version} /\ a.text = server'[m.doc].text /\ a.tag = server'[m.doc].tag

LEMMA ServerHandles ==
  ASSUME ConversationInv, main = "idle", Server, NEW m, m = Head(toServer)
  PROVE  /\ toServer \in Seq(Message) /\ toServer # <<>> /\ m \in Message
         /\ toServer' = Tail(toServer) /\ toServer' \in Seq(Message)
         /\ server' \in [Docs -> Knowledge] /\ \A d \in Docs : server'[d] = After(server[d], m, d)
         /\ \/ m.id = None /\ toClient' = toClient
            \/ \E a \in Answer : toClient' = Append(toClient, a) /\ a.id = m.id /\ (Replies(m, a) \/ Publishes(m, a))
<1>0. /\ ServerNotified \/ ServerRequested \/ ServerControlled
      /\ toServer' = Tail(toServer)
  BY DEF Server
<1>1. toServer \in Seq(Message) /\ toServer # <<>> /\ m \in Message /\ toServer' \in Seq(Message)
  <2>1. toServer \in Seq(Message) /\ toServer # <<>>
    BY <1>0 DEF ConversationInv, ServerNotified, ServerRequested, ServerControlled
  <2> QED   BY <1>0, <2>1, HeadTailProperties
<1>2. server \in [Docs -> Knowledge]
  BY DEF ConversationInv
<1>3. CASE ServerNotified
  <2>1. m.doc \in Docs /\ m.id = None /\ server' = [server EXCEPT ![m.doc] = Known(m)]
    BY <1>3 DEF ServerNotified
  <2>2. Known(m) = Understood(server[m.doc], m)
    BY DEF Known, Understood
  <2>3. Known(m) \in Knowledge
    BY <1>1, <1>2, <2>1, <2>2, UnderstoodType
  <2>4. server' \in [Docs -> Knowledge] /\ \A d \in Docs : server'[d] = After(server[d], m, d)
    BY <1>2, <2>1, <2>2, <2>3 DEF After
  <2>5. server'[m.doc] = Known(m)
    BY <1>2, <2>1
  <2> PICK named \in {None, Known(m).version} :
           \/ toClient' = toClient
           \/ /\ Known(m).open
              /\ Reply([method |-> "publishDiagnostics", id |-> None, doc |-> m.doc, outcome |-> "result",
                        version |-> named, text |-> Known(m).text, tag |-> Known(m).tag])
    BY <1>3 DEF ServerNotified
  <2> DEFINE a == [method |-> "publishDiagnostics", id |-> None, doc |-> m.doc, outcome |-> "result",
                   version |-> named, text |-> Known(m).text, tag |-> Known(m).tag]
  <2>6. a \in Answer
    BY <2>1, <2>3, BoundsAreNat DEF Answer, Knowledge, None
  <2>7. toClient' = toClient \/ (toClient' = Append(toClient, a) /\ Known(m).open)
    BY DEF Reply
  <2>8. Known(m).open => a.id = m.id /\ Publishes(m, a)
    <3>1. a.id = None /\ a.method = "publishDiagnostics" /\ a.doc = m.doc
          /\ a.version \in {None, Known(m).version} /\ a.text = Known(m).text /\ a.tag = Known(m).tag
      OBVIOUS
    <3> HIDE DEF a
    <3> QED   BY <2>1, <2>5, <3>1 DEF Publishes
  <2> HIDE DEF a
  <2> QED   BY <1>0, <1>1, <2>1, <2>4, <2>6, <2>7, <2>8
<1>4. CASE ServerRequested
  <2>1. m.doc \in Docs /\ m.id # None /\ server' = server
    BY <1>4 DEF ServerRequested
  <2>2. PICK outcome \in {"result", "error"} :
          /\ outcome = "result" => server[m.doc].open
          /\ Reply([method |-> "reply", id |-> m.id, doc |-> m.doc, outcome |-> outcome,
                    version |-> 0, text |-> server[m.doc].text, tag |-> 0])
    BY <1>4 DEF ServerRequested
  <2> DEFINE a == [method |-> "reply", id |-> m.id, doc |-> m.doc, outcome |-> outcome,
                   version |-> 0, text |-> server[m.doc].text, tag |-> 0]
  <2>3. a \in Answer
    <3>1. m.id \in Int /\ 0 \in None..MaxVersion /\ 0 \in 0..MaxOpens
      BY <1>1, NoneOfThem, Zenon
    <3>2. server[m.doc].text \in None..MaxText
      BY <1>2, <2>1 DEF Knowledge
    <3> QED   BY <2>1, <3>1, <3>2 DEF Answer
  <2>4. toClient' = Append(toClient, a) /\ a.id = m.id /\ a.method = "reply"
        /\ a.outcome = outcome /\ a.text = server[m.doc].text
    BY <2>2 DEF Reply
  <2> HIDE DEF a
  <2>5. Replies(m, a)
    BY <2>1, <2>2, <2>4 DEF Replies
  <2>6. \A d \in Docs : server'[d] = After(server[d], m, d)
    BY <2>1 DEF After
  <2> QED   BY <1>0, <1>1, <1>2, <2>1, <2>3, <2>4, <2>5, <2>6
<1>5. CASE ServerControlled
  <2>1. m.doc = None /\ m.doc \notin Docs /\ server' = server
    BY <1>5, BoundsAreNat DEF ServerControlled
  <2> DEFINE a == [method |-> "reply", id |-> m.id, doc |-> None, outcome |-> "result",
                   version |-> 0, text |-> 0, tag |-> 0]
  <2>2. a \in Answer
    <3>1. m.id \in Int /\ 0 \in None..MaxVersion /\ 0 \in 0..MaxOpens /\ 0 \in None..MaxText
      BY <1>1, NoneOfThem, Zenon
    <3> QED   BY <3>1 DEF Answer
  <2>3. (m.id = None /\ toClient' = toClient) \/ (m.id # None /\ toClient' = Append(toClient, a))
    BY <1>5 DEF ServerControlled, Reply
  <2>4. a.id = m.id /\ a.method = "reply"
    OBVIOUS
  <2> HIDE DEF a
  <2>5. m.id # None => Replies(m, a)
    BY <2>1, <2>4 DEF Replies
  <2>6. \A d \in Docs : server'[d] = After(server[d], m, d)
    BY <2>1 DEF After
  <2> QED   BY <1>0, <1>1, <1>2, <2>1, <2>2, <2>3, <2>4, <2>5, <2>6
<1> QED   BY <1>0, <1>3, <1>4, <1>5

(* The server handles the first message of the queue.                      *)
LEMMA ServerKeepsInv ==
  ASSUME ClientInv, Server
  PROVE  ClientInv'
<1> USE DEF ClientInv
<1>0. /\ ServerNotified \/ ServerRequested \/ ServerControlled
      /\ toServer' = Tail(toServer)
      /\ UNCHANGED <<clientVars, receiver, posted, main, documentVars>>
  BY DEF Server
<1> USE DEF clientVars, documentVars
<1>1. TypeOK' /\ DocumentsInv' /\ HandlersInv' /\ AccountsInv'
  <2>1. TypeOK'
    BY <1>0 DEF TypeOK
  <2>2. DocumentsInv' /\ HandlersInv' /\ AccountsInv'
    BY <1>0, UnchangedAccounts DEF DocumentsInv
  <2> QED   BY <2>1, <2>2
<1>2. CASE main = "idle"
  <2>1. PICK m : m = Head(toServer)
    OBVIOUS
  <2> HIDE DEF ClientInv, clientVars, documentVars
  <2>2. /\ toServer \in Seq(Message) /\ toServer # <<>> /\ m \in Message /\ toServer' \in Seq(Message)
        /\ server' \in [Docs -> Knowledge] /\ \A d \in Docs : server'[d] = After(server[d], m, d)
    BY <1>2, <2>1, ServerHandles DEF ClientInv
  <2>3. toClient' \in Seq(Answer)
    <3>1. toClient \in Seq(Answer)
      BY <1>2 DEF ClientInv, ConversationInv
    <3>2. CASE toClient' = toClient
      BY <3>1, <3>2
    <3>3. CASE toClient' # toClient
      <4>1. PICK a \in Answer : toClient' = Append(toClient, a)
        BY <1>2, <2>1, <3>3, ServerHandles DEF ClientInv
      <4> QED   BY <3>1, <4>1, AppendProperties
    <3> QED   BY <3>2, <3>3
  <2>4. ConversationInv'
    BY <1>0, <1>2, <2>2, <2>3 DEF ClientInv, ConversationInv, clientVars, documentVars
  <2>5. SyncInv'
    <3> SUFFICES ASSUME NEW d \in Docs
                 PROVE  \E t \in Knowledge :
                          /\ Leads(server'[d], toServer', t, d)
                          /\ tag'[d] # 0 /\ sent'[d] # "no"
                               => t.open /\ t.text = text'[d] /\ t.version = version'[d]
      BY <1>0, <1>2 DEF SyncInv, documentVars
    <3>1. PICK t \in Knowledge :
            /\ Leads(server[d], toServer, t, d)
            /\ tag[d] # 0 /\ sent[d] # "no" => t.open /\ t.text = text[d] /\ t.version = version[d]
      BY <1>2 DEF ClientInv, SyncInv
    <3>2. Leads(After(server[d], m, d), Tail(toServer), t, d)
      BY <2>1, <2>2, <3>1, LeadsTail, Zenon
    <3> QED   BY <1>0, <2>2, <3>1, <3>2 DEF documentVars
  <2> QED   BY <1>1, <2>4, <2>5 DEF ClientInv
<1>3. CASE main # "idle"
  BY <1>0, <1>1, <1>3 DEF ConversationInv, SyncInv
<1> QED   BY <1>2, <1>3

(* The receiver thread hands a message on, or ends.                        *)
LEMMA ReceiverKeepsInv ==
  ASSUME ClientInv, Receive \/ JoinReceiver
  PROVE  ClientInv'
<1> USE DEF ClientInv, clientVars, documentVars
<1>1. CASE Receive
  <2> USE <1>1 DEF Receive
  <2>1. TypeOK' /\ DocumentsInv' /\ HandlersInv' /\ AccountsInv'
    <3>1. TypeOK'
      BY DEF TypeOK
    <3>2. DocumentsInv' /\ HandlersInv' /\ AccountsInv'
      BY UnchangedAccounts DEF DocumentsInv
    <3> QED   BY <3>1, <3>2
  <2>2. ConversationInv'
    <3> SUFFICES ASSUME main = "idle" PROVE posted' \in Seq(Answer) /\ toClient' \in Seq(Answer)
      BY DEF ConversationInv
    <3>1. toClient \in Seq(Answer) /\ toClient # <<>> /\ posted \in Seq(Answer)
      BY DEF ConversationInv
    <3>2. Head(toClient) \in Answer /\ Tail(toClient) \in Seq(Answer)
      BY <3>1, HeadTailProperties
    <3> QED   BY <3>1, <3>2, AppendProperties
  <2>3. SyncInv'
    BY DEF SyncInv
  <2> QED   BY <2>1, <2>2, <2>3
<1>2. CASE JoinReceiver
  BY <1>2 DEF JoinReceiver, TypeOK, DocumentsInv, ConversationInv, HandlersInv, AccountsInv, SyncInv,
              Highlights, HighlightsOf
<1> QED   BY <1>1, <1>2

(* The program stops at a failed assertion, or at a pointer that dangles.  *)
LEMMA AssertionKeepsInv == ClientInv /\ (AssertionFails \/ Crash) => ClientInv'
<1> SUFFICES ASSUME ClientInv, AssertionFails \/ Crash PROVE ClientInv'
  OBVIOUS
<1>1. /\ main' \in {"asserted", "crashed"}
      /\ UNCHANGED <<clientVars, receiver, posted, documentVars, toServer, toClient, server>>
  BY DEF AssertionFails, Crash
<1> USE <1>1 DEF ClientInv, clientVars, documentVars
<1>2. TypeOK'
  BY DEF TypeOK
<1>3. DocumentsInv' /\ HandlersInv'
  BY DEF DocumentsInv, HandlersInv, Highlights
<1>4. ConversationInv' /\ AccountsInv' /\ SyncInv'
  BY DEF ConversationInv, AccountsInv, SyncInv
<1> QED   BY <1>2, <1>3, <1>4

-----------------------------------------------------------------------------
(* Documents are opened, edited and closed.                                *)
LEMMA NotificationIsMessage ==
  ASSUME NEW d \in Docs, NEW method \in {"didOpen", "didChange", "didClose", "semanticTokens", "hover"},
         version'[d] \in 0..MaxVersion, text'[d] \in 0..MaxText, tag'[d] \in 0..MaxOpens
  PROVE  /\ Notification(method, d) \in Message
         /\ \A c \in Seq(1..MaxText) : [Notification(method, d) EXCEPT !.changes = c] \in Message
         /\ \A n \in Int : [Notification(method, d) EXCEPT !.id = n] \in Message
<1>1. None \in Int /\ <<>> \in Seq(1..MaxText)
  BY DEF None
<1>2. Notification(method, d) \in Message
  BY <1>1 DEF Notification, Message
<1> HIDE DEF Notification
<1> QED   BY <1>2, RecordsChange

(* A request is registered with a handler that is a new one.               *)
LEMMA HandlerIsAdded ==
  ASSUME TypeOK, DocumentsInv, HandlersInv, nextId \in Nat,
         NEW d \in Docs, NEW kind \in {"highlight", "hover"}, tag'[d] \in 0..MaxOpens,
         handlers' = handlers \cup {Handler(nextId, kind, d)},
         kind = "highlight" => 0 < tag'[d] /\ tag'[d] <= opens'[d],
         \A e \in Docs : opens[e] <= opens'[e] /\ opens'[e] \in Nat
  PROVE  /\ HandlersInv'
         /\ Handler(nextId, kind, d) \notin handlers
         /\ \A h \in handlers' : h.id \in 0..nextId /\ h.kind \in {"initialize", "highlight", "hover", "cancelled"}
<1> DEFINE h == Handler(nextId, kind, d)
<1>1. h \in Handlers /\ h.id = nextId /\ h.kind = kind /\ h.doc = d /\ h.tag = tag'[d]
  BY DEF Handler, Handlers
<1> HIDE DEF h
<1>2. h \notin handlers
  BY <1>1 DEF TypeOK
<1>3. Highlights' = IF kind = "highlight" THEN Highlights \cup {h} ELSE Highlights
  BY <1>1 DEF Highlights, h
<1>4. IsFiniteSet(Highlights')
  BY <1>3, FS_AddElement DEF HandlersInv
<1>5. \A g \in handlers' : g.id \in 0..nextId /\ g.kind \in {"initialize", "highlight", "hover", "cancelled"}
  BY <1>1 DEF TypeOK, h
<1>6. \A g \in handlers' : g.kind \in {"highlight", "hover", "cancelled"} => g.doc \in Docs
  BY <1>1 DEF HandlersInv, h
<1>7. \A g \in Highlights' : 0 < g.tag /\ g.tag <= opens'[g.doc]
  <2> SUFFICES ASSUME NEW g \in Highlights' PROVE 0 < g.tag /\ g.tag <= opens'[g.doc]
    OBVIOUS
  <2>1. CASE g = h
    BY <1>1, <1>3, <2>1 DEF Highlights
  <2>2. CASE g # h
    <3>1. g \in Highlights /\ g.doc \in Docs
      BY <1>3, <2>2 DEF Highlights, HandlersInv
    <3>2. 0 < g.tag /\ g.tag <= opens[g.doc] /\ opens[g.doc] <= opens'[g.doc]
      BY <3>1 DEF HandlersInv
    <3>3. g.tag \in Nat /\ opens[g.doc] \in Nat /\ opens'[g.doc] \in Nat
      BY <3>1 DEF HandlersInv, Handlers, Highlights, DocumentsInv
    <3> QED   BY <3>2, <3>3
  <2> QED   BY <2>1, <2>2
<1>8. handlers' \subseteq Handlers
  BY <1>1 DEF HandlersInv, h
<1> QED   BY <1>2, <1>4, <1>5, <1>6, <1>7, <1>8 DEF HandlersInv, h

LEMMA OpenKeepsInv ==
  ASSUME ClientInv, NEW d \in Docs, Open(d)
  PROVE  ClientInv'
<1> USE DEF ClientInv
<1>1. /\ main = "idle" /\ tag[d] = 0 /\ opens[d] < MaxOpens
      /\ opens' = [opens EXCEPT ![d] = @ + 1]
      /\ tag' = [tag EXCEPT ![d] = opens[d] + 1]
      /\ sent' = [sent EXCEPT ![d] = IF state = "ready" THEN "asked" ELSE "no"]
      /\ version' = [version EXCEPT ![d] = 0]
      /\ changes' = [changes EXCEPT ![d] = <<>>]
      /\ UNCHANGED <<receiver, posted, main, text, shown, diagnostics, hover, toClient, server>>
  BY DEF Open
<1>2. opens[d] \in Nat /\ opens[d] + 1 \in 1..MaxOpens /\ tag'[d] = opens[d] + 1 /\ opens'[d] = opens[d] + 1
  <2>1. opens[d] \in 0..MaxOpens /\ opens[d] < MaxOpens
    BY <1>1 DEF DocumentsInv
  <2>2. opens[d] \in Nat /\ opens[d] + 1 \in 1..MaxOpens
    BY <2>1, BoundsAreNat
  <2> QED   BY <1>1, <2>2 DEF DocumentsInv, TypeOK
<1>3. DocumentsInv'
  <2>1. <<>> \in Seq(1..MaxText) /\ 0 \in 0..MaxVersion
    BY NoneOfThem
  <2> QED   BY <1>1, <1>2, <2>1 DEF DocumentsInv, TypeOK
<1>4. /\ tag' \in [Docs -> 0..MaxOpens] /\ sent' \in [Docs -> {"no", "opened", "asked"}]
      /\ \A e \in Docs : version'[e] \in 0..MaxVersion /\ Len(changes'[e]) <= MaxChanges
  <2>1. tag' \in [Docs -> 0..MaxOpens] /\ sent' \in [Docs -> {"no", "opened", "asked"}]
    BY <1>1, <1>2, BoundsAreNat DEF TypeOK
  <2>2. Len(<<>>) <= MaxChanges /\ 0 \in 0..MaxVersion
    BY BoundsAreNat
  <2>3. \A e \in Docs : version'[e] \in 0..MaxVersion /\ Len(changes'[e]) <= MaxChanges
    BY <1>1, <2>2 DEF TypeOK, DocumentsInv
  <2> QED   BY <2>1, <2>3
<1>5. \A e \in Docs \ {d} : tag'[e] = tag[e] /\ sent'[e] = sent[e] /\ version'[e] = version[e] /\ text'[e] = text[e]
  BY <1>1 DEF TypeOK, DocumentsInv
<1>6. CASE state # "ready"
  <2>1. queued' = [queued EXCEPT ![d] = 0] /\ UNCHANGED <<clientVars, toServer>>
    BY <1>6 DEF Open
  <2> USE DEF clientVars
  <2>2. TypeOK'
    BY <1>1, <1>4, <2>1 DEF TypeOK
  <2>3. ConversationInv'
    BY <1>1, <2>1 DEF ConversationInv, TypeOK
  <2>4. HandlersInv'
    <3>1. Highlights' = Highlights
      BY <2>1 DEF Highlights
    <3>2. \A h \in Highlights : h.tag <= opens'[h.doc]
      <4> SUFFICES ASSUME NEW h \in Highlights PROVE h.tag <= opens'[h.doc]
        OBVIOUS
      <4>1. h.doc \in Docs /\ h.tag <= opens[h.doc] /\ h.tag \in Nat
        BY DEF HandlersInv, Highlights, Handlers
      <4> QED   BY <1>1, <1>2, <4>1 DEF DocumentsInv
    <3> QED   BY <2>1, <3>1, <3>2 DEF HandlersInv
  <2>5. AccountsInv'
    <3>1. \A e \in Docs \ {d} : HighlightsOf(e)' = HighlightsOf(e) /\ queued'[e] = queued[e]
      BY <1>5, <2>1 DEF HighlightsOf, Highlights, TypeOK
    <3>2. HighlightsOf(d)' = {} /\ queued'[d] = 0
      BY <1>2, <2>1 DEF HighlightsOf, Highlights, TypeOK, HandlersInv, Handlers
    <3>3. Cardinality(HighlightsOf(d)') = 0
      BY <3>2, FS_EmptySet
    <3>4. hover' = hover /\ handlers' = handlers /\ main' = main /\ \A e \in Docs \ {d} : tag'[e] = tag[e]
      BY <1>1, <1>5, <2>1
    <3> HIDE DEF ClientInv
    <3>5. AccountsInv /\ main = "idle"
      BY <1>1 DEF ClientInv
    <3> QED   BY <3>1, <3>2, <3>3, <3>4, <3>5 DEF AccountsInv
  <2>6. SyncInv'
    BY <1>1, <1>5, <1>6, <2>1 DEF SyncInv, TypeOK
  <2> QED   BY <1>3, <2>2, <2>3, <2>4, <2>5, <2>6
<1>7. CASE state = "ready"
  <2> DEFINE m == Notification("didOpen", d)
             r == Request("semanticTokens", nextId, d)
             h == Handler(nextId, "highlight", d)
  <2>1. /\ queued' = [queued EXCEPT ![d] = 1]
        /\ nextId < MaxRequests /\ nextId' = nextId + 1 /\ handlers' = handlers \cup {h}
        /\ toServer' = toServer \o (<<m>> \o <<r>>)
        /\ UNCHANGED <<state, shutdownId>>
    BY <1>7 DEF Open, SendRequest, Send
  <2>2. m \in Message /\ r \in Message
    <3>1. nextId \in Int /\ version'[d] = 0 /\ text'[d] \in 0..MaxText /\ tag'[d] \in 0..MaxOpens
      BY <1>1, <1>4 DEF TypeOK, DocumentsInv
    <3> QED   BY <3>1, NoneOfThem, NotificationIsMessage DEF Request
  <2>3. /\ m.doc = d /\ m.id = None /\ m.method = "didOpen" /\ m.version = version'[d] /\ m.text = text'[d]
        /\ r.doc = d /\ r.id = nextId
    BY DEF Notification, Request
  <2>4. h.id = nextId /\ h.kind = "highlight" /\ h.doc = d /\ h.tag = tag'[d]
    BY DEF Handler
  <2>5. /\ HandlersInv' /\ h \notin handlers
        /\ \A g \in handlers' : g.id \in 0..nextId /\ g.kind \in {"initialize", "highlight", "hover", "cancelled"}
    <3>1. nextId \in Nat /\ tag'[d] \in 0..MaxOpens /\ 0 < tag'[d] /\ tag'[d] <= opens'[d]
      BY <1>1, <1>2, <1>4 DEF TypeOK, DocumentsInv
    <3>2. \A e \in Docs : opens[e] <= opens'[e] /\ opens'[e] \in Nat
      <4>1. opens \in [Docs -> 0..MaxOpens] /\ opens' = [opens EXCEPT ![d] = @ + 1]
        BY <1>1 DEF DocumentsInv
      <4> HIDE DEF ClientInv
      <4> QED   BY <4>1, BoundsAreNat
    <3>3. /\ TypeOK /\ DocumentsInv /\ HandlersInv
          /\ handlers' = handlers \cup {Handler(nextId, "highlight", d)}
      BY <2>1
    <3> HIDE DEF ClientInv
    <3> QED   BY <3>1, <3>2, <3>3, HandlerIsAdded
  <2> HIDE DEF m, r, h
  <2>6. TypeOK'
    <3>1. nextId' \in 0..MaxRequests + 1 /\ nextId' - 1 = nextId
      BY <2>1, BoundsAssumption DEF TypeOK
    <3> QED   BY <1>1, <1>4, <2>1, <2>5, <3>1 DEF TypeOK
  <2>7. ConversationInv'
    <3>1. toServer' \in Seq(Message) /\ toServer \in Seq(Message)
      BY <1>1, <2>1, <2>2, SentPair DEF ConversationInv
    <3> QED   BY <1>1, <1>7, <2>1, <3>1, BoundsAssumption DEF ConversationInv
  <2>8. AccountsInv'
    <3>1. \A e \in Docs \ {d} : HighlightsOf(e)' = HighlightsOf(e) /\ queued'[e] = queued[e]
      BY <1>5, <2>1, <2>4 DEF HighlightsOf, Highlights, TypeOK
    <3>2. HighlightsOf(d)' = {h} /\ queued'[d] = 1
      <4>1. \A g \in Highlights : g.doc = d => g.tag # tag'[d]
        BY <1>2 DEF Highlights, HandlersInv, Handlers
      <4>2. Highlights' = Highlights \cup {h}
        BY <2>1, <2>4 DEF Highlights
      <4>3. HighlightsOf(d)' = {h}
        BY <2>4, <4>1, <4>2 DEF HighlightsOf
      <4> QED   BY <2>1, <4>3 DEF TypeOK
    <3>3. Cardinality(HighlightsOf(d)') = 1
      BY <3>2, FS_Singleton
    <3>4. /\ hover' = hover /\ handlers \subseteq handlers' /\ main' = main
          /\ \A e \in Docs \ {d} : tag'[e] = tag[e]
      BY <1>1, <1>5, <2>1
    <3>5. AccountsInv /\ main = "idle"
      BY <1>1 DEF ClientInv
    <3> HIDE DEF ClientInv
    <3> QED   BY <3>1, <3>2, <3>3, <3>4, <3>5 DEF AccountsInv
  <2>9. SyncInv'
    <3> SUFFICES ASSUME NEW e \in Docs
                 PROVE  \E t \in Knowledge :
                          /\ Leads(server[e], toServer', t, e)
                          /\ tag'[e] # 0 /\ sent'[e] # "no"
                               => t.open /\ t.text = text'[e] /\ t.version = version'[e]
      BY <1>1 DEF SyncInv
    <3>1. PICK t \in Knowledge :
            /\ Leads(server[e], toServer, t, e)
            /\ tag[e] # 0 /\ sent[e] # "no" => t.open /\ t.text = text[e] /\ t.version = version[e]
      BY <1>1 DEF SyncInv
    <3> DEFINE u == After(After(t, m, e), r, e)
    <3>2. Leads(server[e], toServer', u, e) /\ u \in Knowledge
      BY <1>1, <2>1, <2>2, <3>1, SentPair, AfterType DEF ConversationInv
    <3>3. r.id # None
      BY <2>3 DEF TypeOK, None
    <3>4. CASE e = d
      BY <2>3, <3>2, <3>3, <3>4 DEF After, Understood, Opened
    <3>5. CASE e # d
      BY <1>5, <2>3, <3>1, <3>2, <3>5 DEF After
    <3> QED   BY <3>4, <3>5
  <2> QED   BY <1>3, <2>5, <2>6, <2>7, <2>8, <2>9
<1> QED   BY <1>6, <1>7

(* An edit that is sent counts on what was sent before.                    *)
LEMMA EditKeepsInv ==
  ASSUME ClientInv, NEW d \in Docs, NEW n \in 1..MaxChanges, Edit(d, n)
  PROVE  ClientInv'
<1> USE DEF ClientInv
<1> DEFINE made == [i \in 1..n |-> text[d] + i]
<1>1. /\ main = "idle" /\ tag[d] # 0 /\ text[d] + n <= MaxText
      /\ text' = [text EXCEPT ![d] = @ + n]
      /\ UNCHANGED <<receiver, posted, main, tag, opens, shown, diagnostics, hover, toClient, server>>
  BY DEF Edit
<1>2. made \in Seq(1..MaxText) /\ Len(made) = n /\ n \in Nat /\ n <= MaxChanges /\ text[d] \in Nat
  <2>1. text[d] \in Nat /\ n \in Nat /\ n <= MaxChanges
    BY BoundsAreNat DEF DocumentsInv
  <2>2. \A i \in 1..n : text[d] + i \in 1..MaxText
    BY <1>1, <2>1, BoundsAreNat
  <2> QED   BY <2>1, <2>2
<1>3. text' \in [Docs -> 0..MaxText] /\ text'[d] = text[d] + n /\ \A e \in Docs \ {d} : text'[e] = text[e]
  <2>1. text[d] + n \in 0..MaxText
    BY <1>1, <1>2, BoundsAreNat
  <2> QED   BY <1>1, <2>1 DEF DocumentsInv
<1>4. CASE state # "ready"
  <2>1. changes' = [changes EXCEPT ![d] = made] /\ UNCHANGED <<clientVars, version, sent, queued, toServer>>
    BY <1>4 DEF Edit
  <2> USE DEF clientVars
  <2> HIDE DEF made
  <2>2. \A e \in Docs : sent[e] = "no"
    BY <1>1, <1>4 DEF ConversationInv
  <2>3. TypeOK'
    BY <1>1, <1>2, <2>1 DEF TypeOK, DocumentsInv
  <2>4. DocumentsInv' /\ ConversationInv'
    BY <1>1, <1>2, <1>3, <2>1 DEF DocumentsInv, ConversationInv
  <2>5. HandlersInv' /\ AccountsInv'
    BY <1>1, <2>1, UnchangedAccounts
  <2>6. SyncInv'
    BY <1>1, <2>1, <2>2 DEF SyncInv
  <2> QED   BY <2>3, <2>4, <2>5, <2>6
<1>5. CASE state = "ready"
  <2> DEFINE m == DidChange(d, made)
             r == Request("semanticTokens", nextId, d)
             h == Handler(nextId, "highlight", d)
  <2>1. /\ version[d] + opens[d] <= MaxVersion
        /\ version' = [version EXCEPT ![d] = @ + 1]
        /\ sent' = [sent EXCEPT ![d] = IF @ = "no" THEN "no" ELSE "asked"]
        /\ queued' = [queued EXCEPT ![d] = @ + 1]
        /\ changes' = [changes EXCEPT ![d] = <<>>]
    BY <1>5 DEF Edit
  <2>2. /\ nextId < MaxRequests /\ nextId' = nextId + 1 /\ handlers' = handlers \cup {h}
        /\ toServer' = toServer \o (<<m>> \o <<r>>)
        /\ UNCHANGED <<state, shutdownId>>
    BY <1>5 DEF Edit, SendRequest, Send
  <2>3. version[d] + 1 \in 0..MaxVersion /\ version'[d] = version[d] + 1 /\ version' \in [Docs -> 0..MaxVersion]
    <3>1. version[d] + 1 \in 0..MaxVersion
      <4>1. tag[d] # 0 /\ tag[d] \in 0..MaxOpens /\ tag[d] <= opens[d] /\ opens[d] \in 0..MaxOpens /\ version[d] \in 0..MaxVersion
        BY <1>1 DEF DocumentsInv, TypeOK
      <4> QED   BY <2>1, <4>1, BoundsAreNat
    <3> QED   BY <2>1, <3>1 DEF DocumentsInv
  <2>4. m \in Message /\ r \in Message
    <3>1. nextId \in Int /\ version'[d] \in 0..MaxVersion /\ text'[d] \in 0..MaxText /\ tag'[d] \in 0..MaxOpens
      BY <1>1, <1>3, <2>3 DEF TypeOK
    <3> HIDE DEF made
    <3> QED   BY <1>2, <3>1, NotificationIsMessage DEF Request, DidChange
  <2>5. /\ m.doc = d /\ m.id = None /\ m.method = "didChange" /\ m.version = version'[d] /\ m.changes = made
        /\ r.doc = d /\ r.id = nextId
    <3> HIDE DEF made
    <3> QED   BY DEF Notification, Request, DidChange
  <2>6. h.id = nextId /\ h.kind = "highlight" /\ h.doc = d /\ h.tag = tag'[d]
    BY DEF Handler
  <2>7. /\ HandlersInv' /\ h \notin handlers
        /\ \A g \in handlers' : g.id \in 0..nextId /\ g.kind \in {"initialize", "highlight", "hover", "cancelled"}
    <3>1. /\ nextId \in Nat /\ tag'[d] \in 0..MaxOpens /\ 0 < tag'[d] /\ tag'[d] <= opens'[d]
          /\ \A e \in Docs : opens[e] <= opens'[e] /\ opens'[e] \in Nat
      BY <1>1 DEF TypeOK, DocumentsInv
    <3> QED   BY <2>2, <3>1, HandlerIsAdded
  <2> HIDE DEF m, r, h
  <2>8. queued[d] \in Nat /\ queued'[d] = queued[d] + 1 /\ queued' \in [Docs -> Nat]
    BY <2>1 DEF TypeOK
  <2>9. TypeOK'
    <3>1. nextId' \in 0..MaxRequests + 1 /\ nextId' - 1 = nextId
      BY <2>2, BoundsAreNat DEF TypeOK
    <3>2. \A e \in Docs : Len(changes'[e]) <= MaxChanges
      BY <2>1, BoundsAreNat DEF TypeOK, DocumentsInv
    <3> QED   BY <1>1, <2>1, <2>2, <2>3, <2>7, <2>8, <3>1, <3>2 DEF TypeOK
  <2>10. DocumentsInv'
    BY <1>1, <1>3, <2>1, <2>3 DEF DocumentsInv
  <2>11. ConversationInv'
    <3>1. toServer' \in Seq(Message) /\ toServer \in Seq(Message)
      BY <1>1, <2>2, <2>4, SentPair DEF ConversationInv
    <3> QED   BY <1>1, <1>5, <2>2, <3>1, BoundsAreNat DEF ConversationInv
  <2>12. AccountsInv'
    <3>1. \A e \in Docs \ {d} : HighlightsOf(e)' = HighlightsOf(e) /\ queued'[e] = queued[e]
      BY <1>1, <2>1, <2>2, <2>6 DEF HighlightsOf, Highlights, TypeOK
    <3>2. HighlightsOf(d)' = HighlightsOf(d) \cup {h} /\ h \notin HighlightsOf(d)
      BY <1>1, <2>2, <2>6, <2>7 DEF HighlightsOf, Highlights
    <3>3. IsFiniteSet(HighlightsOf(d))
      BY FS_Subset DEF HighlightsOf, HandlersInv
    <3>4. Cardinality(HighlightsOf(d)') = Cardinality(HighlightsOf(d)) + 1
      BY <3>2, <3>3, FS_AddElement
    <3> QED   BY <1>1, <2>2, <2>8, <3>1, <3>4 DEF AccountsInv
  <2>13. SyncInv'
    <3> SUFFICES ASSUME NEW e \in Docs
                 PROVE  \E t \in Knowledge :
                          /\ Leads(server[e], toServer', t, e)
                          /\ tag'[e] # 0 /\ sent'[e] # "no"
                               => t.open /\ t.text = text'[e] /\ t.version = version'[e]
      BY <1>1 DEF SyncInv
    <3>1. PICK t \in Knowledge :
            /\ Leads(server[e], toServer, t, e)
            /\ tag[e] # 0 /\ sent[e] # "no" => t.open /\ t.text = text[e] /\ t.version = version[e]
      BY <1>1 DEF SyncInv
    <3> DEFINE u == After(After(t, m, e), r, e)
    <3>2. Leads(server[e], toServer', u, e) /\ u \in Knowledge
      BY <1>1, <2>2, <2>4, <3>1, SentPair, AfterType DEF ConversationInv
    <3>3. r.id # None
      BY <2>5, BoundsAreNat DEF TypeOK
    <3>4. CASE e = d /\ sent[d] # "no"
      <4>1. t.open /\ t.text = text[d]
        BY <1>1, <3>1, <3>4
      <4>2. u = Changed(t, m)
        BY <2>5, <3>3, <3>4, <4>1 DEF After, Understood
      <4>3. u.text = text[d] + n /\ u.version = version'[d] /\ u.open
        BY <1>2, <2>5, <3>1, <4>1, <4>2 DEF Changed, Knowledge
      <4> QED   BY <1>3, <3>2, <3>4, <4>3
    <3>5. CASE e = d /\ sent[d] = "no"
      BY <2>1, <3>2, <3>5 DEF TypeOK
    <3>6. CASE e # d
      BY <1>1, <1>3, <2>1, <2>5, <3>1, <3>2, <3>6 DEF After, TypeOK, DocumentsInv
    <3> QED   BY <3>4, <3>5, <3>6
  <2> QED   BY <2>7, <2>9, <2>10, <2>11, <2>12, <2>13
<1> QED   BY <1>4, <1>5

LEMMA ChangeLanguageKeepsInv ==
  ASSUME ClientInv, NEW d \in Docs, ChangeLanguage(d)
  PROVE  ClientInv'
<1> USE DEF ClientInv, clientVars
<1> DEFINE m == Notification("didClose", d)
           o == Notification("didOpen", d)
<1>1. /\ main = "idle" /\ tag[d] # 0 /\ state = "ready" /\ version[d] + opens[d] <= MaxVersion
      /\ version' = [version EXCEPT ![d] = @ + 1]
      /\ sent' = [sent EXCEPT ![d] = "opened"]
      /\ UNCHANGED <<clientVars, receiver, posted, main, tag, opens, text, changes, queued, shown,
                     diagnostics, hover, toClient, server>>
      /\ toServer' = toServer \o <<m, o>>
  BY DEF ChangeLanguage, Send
<1>2. version[d] + 1 \in 0..MaxVersion /\ version'[d] = version[d] + 1 /\ version' \in [Docs -> 0..MaxVersion]
  <2>1. version[d] + 1 \in 0..MaxVersion
    <3>1. tag[d] \in 0..MaxOpens /\ tag[d] <= opens[d] /\ opens[d] \in 0..MaxOpens /\ version[d] \in 0..MaxVersion
      BY DEF DocumentsInv, TypeOK
    <3> QED   BY <1>1, <3>1, BoundsAreNat
  <2> QED   BY <1>1, <2>1 DEF DocumentsInv
<1>3. m \in Message /\ o \in Message
  <2>1. version'[d] \in 0..MaxVersion /\ text'[d] \in 0..MaxText /\ tag'[d] \in 0..MaxOpens
    BY <1>1, <1>2 DEF TypeOK, DocumentsInv
  <2> QED   BY <2>1, NotificationIsMessage
<1>4. /\ m.doc = d
      /\ o.doc = d /\ o.id = None /\ o.method = "didOpen" /\ o.version = version'[d] /\ o.text = text'[d]
  BY DEF Notification
<1> HIDE DEF m, o
<1>5. TypeOK' /\ DocumentsInv'
  BY <1>1, <1>2 DEF TypeOK, DocumentsInv
<1>6. HandlersInv' /\ AccountsInv'
  BY <1>1, UnchangedAccounts
<1>7. toServer \in Seq(Message) /\ toServer' = toServer \o (<<m>> \o <<o>>)
  BY <1>1, <1>3, PairIsConcat DEF ConversationInv
<1>8. ConversationInv'
  <2>1. toServer' \in Seq(Message)
    BY <1>3, <1>7, SentPair
  <2> QED   BY <1>1, <2>1 DEF ConversationInv
<1>9. SyncInv'
  <2> SUFFICES ASSUME NEW e \in Docs
               PROVE  \E t \in Knowledge :
                        /\ Leads(server[e], toServer', t, e)
                        /\ tag'[e] # 0 /\ sent'[e] # "no"
                             => t.open /\ t.text = text'[e] /\ t.version = version'[e]
    BY <1>1 DEF SyncInv
  <2>1. PICK t \in Knowledge :
          /\ Leads(server[e], toServer, t, e)
          /\ tag[e] # 0 /\ sent[e] # "no" => t.open /\ t.text = text[e] /\ t.version = version[e]
    BY <1>1 DEF SyncInv
  <2> DEFINE u == After(After(t, m, e), o, e)
  <2>2. Leads(server[e], toServer', u, e) /\ u \in Knowledge
    BY <1>3, <1>7, <2>1, SentPair, AfterType
  <2>3. CASE e = d
    BY <1>4, <2>2, <2>3 DEF After, Understood, Opened
  <2>4. CASE e # d
    BY <1>1, <1>4, <2>1, <2>2, <2>4 DEF After, TypeOK, DocumentsInv
  <2> QED   BY <2>3, <2>4
<1> QED   BY <1>5, <1>6, <1>8, <1>9

(* Only tooltips have their handlers cancelled.                            *)
LEMMA HighlightsAreNotCancelled ==
  ASSUME HandlersInv, NEW closing \in SUBSET Docs, CancelHover(closing)
  PROVE  /\ Highlights' = Highlights
         /\ (\A g, h \in handlers : g.id = h.id => g = h) => \A g, h \in handlers' : g.id = h.id => g = h
<1> DEFINE changed(h) == h.kind = "hover" /\ h.doc \in closing
           of(h) == IF changed(h) THEN [h EXCEPT !.kind = "cancelled"] ELSE h
<1>1. handlers' = {of(h) : h \in handlers}
  BY DEF CancelHover
<1>2. \A h \in handlers : /\ of(h).id = h.id
                          /\ of(h).kind = "highlight" \/ h.kind = "highlight" => of(h) = h
  BY DEF HandlersInv, Handlers
<1> HIDE DEF of
<1>3. Highlights' = Highlights
  BY <1>1, <1>2 DEF Highlights
<1> QED   BY <1>1, <1>2, <1>3

(* Tooltips that go away cancel their handlers, and only those.            *)
LEMMA CancelHoverKeepsAccounts ==
  ASSUME TypeOK, HandlersInv, AccountsInv, NEW closing \in SUBSET Docs, CancelHover(closing),
         UNCHANGED <<nextId, main, opens>>,
         \A d \in Docs : tag'[d] # 0 => tag'[d] = tag[d] /\ queued'[d] = queued[d]
  PROVE  /\ HandlersInv' /\ AccountsInv'
         /\ hover' \in [Docs -> None..MaxRequests]
         /\ \A h \in handlers' :
              h.id \in 0..nextId' - 1 /\ h.kind \in {"initialize", "highlight", "hover", "cancelled"}
<1> DEFINE changed(h) == h.kind = "hover" /\ h.doc \in closing
<1>1. /\ handlers' = {IF changed(h) THEN [h EXCEPT !.kind = "cancelled"] ELSE h : h \in handlers}
      /\ hover' = [d \in Docs |-> IF d \in closing THEN None ELSE hover[d]]
  BY DEF CancelHover
<1>2. \A h \in handlers :
        /\ h \in Handlers
        /\ [h EXCEPT !.kind = "cancelled"] \in Handlers
        /\ [h EXCEPT !.kind = "cancelled"].kind = "cancelled"
        /\ [h EXCEPT !.kind = "cancelled"].id = h.id
        /\ [h EXCEPT !.kind = "cancelled"].doc = h.doc
  BY DEF HandlersInv, Handlers
<1>3. \A g \in handlers' : \/ g \in handlers /\ ~changed(g)
                           \/ \E h \in handlers : changed(h) /\ g = [h EXCEPT !.kind = "cancelled"]
  BY <1>1
<1>4. \A h \in handlers : ~changed(h) => h \in handlers'
  BY <1>1
<1> HIDE DEF changed
<1>5. Highlights' = Highlights
  BY HighlightsAreNotCancelled
<1>6. HandlersInv'
  <2>1. handlers' \subseteq Handlers
    <3>1. \A h \in handlers : h \in Handlers /\ [h EXCEPT !.kind = "cancelled"] \in Handlers
      BY <1>2
    <3> QED   BY <1>3, <3>1
  <2>2. ASSUME NEW g \in handlers', g.kind \in {"highlight", "hover", "cancelled"}
        PROVE  g.doc \in Docs
    <3>1. CASE g \in handlers
      BY <2>2, <3>1 DEF HandlersInv
    <3>2. CASE g \notin handlers
      <4>1. PICK h \in handlers : changed(h) /\ g = [h EXCEPT !.kind = "cancelled"]
        BY <1>3, <3>2
      <4>2. g.doc = h.doc /\ h.doc \in closing
        BY <1>2, <4>1 DEF changed
      <4> QED   BY <4>2
    <3> QED   BY <3>1, <3>2
  <2> QED   BY <1>5, <2>1, <2>2 DEF HandlersInv
<1>7. AccountsInv'
  <2> SUFFICES ASSUME main \notin {"done", "asserted", "crashed"}, NEW d \in Docs
               PROVE  /\ hover'[d] # None => \E h \in handlers' : h.id = hover'[d] /\ h.kind = "hover" /\ h.doc = d
                      /\ tag'[d] # 0 => queued'[d] = Cardinality(HighlightsOf(d)')
    BY DEF AccountsInv
  <2>1. hover'[d] # None => \E h \in handlers' : h.id = hover'[d] /\ h.kind = "hover" /\ h.doc = d
    <3> SUFFICES ASSUME hover'[d] # None
                 PROVE  \E h \in handlers' : h.id = hover'[d] /\ h.kind = "hover" /\ h.doc = d
      OBVIOUS
    <3>1. d \notin closing /\ hover'[d] = hover[d]
      BY <1>1
    <3>2. PICK h \in handlers : h.id = hover[d] /\ h.kind = "hover" /\ h.doc = d
      BY <3>1 DEF AccountsInv
    <3>3. h \in handlers'
      BY <1>4, <3>1, <3>2 DEF changed
    <3> QED   BY <3>1, <3>2, <3>3
  <2>2. tag'[d] # 0 => queued'[d] = Cardinality(HighlightsOf(d)')
    <3> SUFFICES ASSUME tag'[d] # 0 PROVE queued'[d] = Cardinality(HighlightsOf(d)')
      OBVIOUS
    <3>1. HighlightsOf(d)' = HighlightsOf(d)
      BY <1>5 DEF HighlightsOf
    <3> QED   BY <3>1 DEF AccountsInv
  <2> QED   BY <2>1, <2>2
<1>8. hover' \in [Docs -> None..MaxRequests]
  BY <1>1, BoundsAreNat DEF TypeOK
<1>9. ASSUME NEW g \in handlers'
      PROVE  g.id \in 0..nextId' - 1 /\ g.kind \in {"initialize", "highlight", "hover", "cancelled"}
  <2>1. CASE g \in handlers
    BY <2>1 DEF TypeOK
  <2>2. CASE g \notin handlers
    <3>1. PICK h \in handlers : changed(h) /\ g = [h EXCEPT !.kind = "cancelled"]
      BY <1>3, <2>2
    <3>2. g.id = h.id /\ g.kind = "cancelled"
      BY <1>2, <3>1
    <3> QED   BY <3>2 DEF TypeOK
  <2> QED   BY <2>1, <2>2
<1> QED   BY <1>6, <1>7, <1>8, <1>9

LEMMA DestroyTagsKeepsTypes ==
  ASSUME TypeOK, DocumentsInv, NEW closing \in SUBSET Docs, DestroyTags(closing)
  PROVE  /\ DocumentsInv'
         /\ tag' \in [Docs -> 0..MaxOpens] /\ queued' \in [Docs -> Nat]
         /\ sent' \in [Docs -> {"no", "opened", "asked"}] /\ shown' \in [Docs -> None..MaxText]
         /\ \A d \in Docs : version'[d] \in 0..MaxVersion /\ Len(changes'[d]) <= MaxChanges
         /\ \A d \in closing : tag'[d] = 0
         /\ \A d \in Docs \ closing : /\ tag'[d] = tag[d] /\ sent'[d] = sent[d] /\ queued'[d] = queued[d]
                                      /\ version'[d] = version[d]
         /\ UNCHANGED <<opens, text>>
<1> USE DEF DestroyTags
<1>1. /\ 0 \in 0..MaxOpens /\ 0 \in 0..MaxVersion /\ None \in None..MaxText /\ 0 \in Nat
      /\ <<>> \in Seq(1..MaxText) /\ Len(<<>>) <= MaxChanges
  BY BoundsAreNat
<1>2. tag' \in [Docs -> 0..MaxOpens] /\ queued' \in [Docs -> Nat] /\ version' \in [Docs -> 0..MaxVersion]
  BY <1>1 DEF TypeOK, DocumentsInv
<1>3. sent' \in [Docs -> {"no", "opened", "asked"}] /\ shown' \in [Docs -> None..MaxText]
  BY <1>1 DEF TypeOK
<1>4. changes' \in [Docs -> Seq(1..MaxText)] /\ \A d \in Docs : Len(changes'[d]) <= MaxChanges
  BY <1>1 DEF TypeOK, DocumentsInv
<1>5. /\ \A d \in closing : tag'[d] = 0
      /\ \A d \in Docs \ closing : /\ tag'[d] = tag[d] /\ sent'[d] = sent[d] /\ queued'[d] = queued[d]
                                   /\ version'[d] = version[d]
      /\ UNCHANGED <<opens, text>>
  OBVIOUS
<1> HIDE DEF DestroyTags
<1>6. ASSUME NEW d \in Docs PROVE tag'[d] <= opens'[d]
  <2>1. opens'[d] = opens[d] /\ opens[d] \in 0..MaxOpens /\ tag[d] <= opens[d]
    BY <1>5 DEF DocumentsInv
  <2>2. tag'[d] = 0 \/ tag'[d] = tag[d]
    BY <1>5
  <2> QED   BY <2>1, <2>2, BoundsAreNat
<1> QED   BY <1>2, <1>3, <1>4, <1>5, <1>6 DEF DocumentsInv

LEMMA CloseKeepsInv ==
  ASSUME ClientInv, NEW d \in Docs, Close(d)
  PROVE  ClientInv'
<1> USE DEF ClientInv
<1>1. CASE state # "ready"
  BY <1>1, AssertionKeepsInv DEF Close
<1>2. CASE state = "ready"
  <2> DEFINE m == Notification("didClose", d)
  <2>1. /\ main = "idle" /\ CancelHover({d}) /\ DestroyTags({d})
        /\ toServer' = toServer \o <<m>>
        /\ UNCHANGED <<state, nextId, shutdownId, receiver, posted, main, toClient, server>>
    BY <1>2 DEF Close, Send
  <2>2. /\ DocumentsInv'
        /\ tag' \in [Docs -> 0..MaxOpens] /\ queued' \in [Docs -> Nat]
        /\ sent' \in [Docs -> {"no", "opened", "asked"}] /\ shown' \in [Docs -> None..MaxText]
        /\ \A e \in Docs : version'[e] \in 0..MaxVersion /\ Len(changes'[e]) <= MaxChanges
        /\ tag'[d] = 0
        /\ \A e \in Docs \ {d} : /\ tag'[e] = tag[e] /\ sent'[e] = sent[e] /\ queued'[e] = queued[e]
                                 /\ version'[e] = version[e]
        /\ UNCHANGED <<opens, text>>
    BY <2>1, DestroyTagsKeepsTypes
  <2>3. /\ HandlersInv' /\ AccountsInv'
        /\ hover' \in [Docs -> None..MaxRequests]
        /\ \A h \in handlers' :
             h.id \in 0..nextId' - 1 /\ h.kind \in {"initialize", "highlight", "hover", "cancelled"}
    BY <2>1, <2>2, CancelHoverKeepsAccounts
  <2>4. TypeOK'
    BY <2>1, <2>2, <2>3 DEF TypeOK
  <2>5. m \in Message /\ m.doc = d
    <3>1. version'[d] \in 0..MaxVersion /\ text'[d] \in 0..MaxText /\ tag'[d] \in 0..MaxOpens
      BY <2>2 DEF DocumentsInv
    <3> QED   BY <3>1, NotificationIsMessage DEF Notification
  <2> HIDE DEF m
  <2>6. toServer \in Seq(Message)
    BY <2>1 DEF ConversationInv
  <2>7. ConversationInv'
    <3>1. toServer' \in Seq(Message)
      BY <2>1, <2>5, <2>6, SentOne
    <3> QED   BY <1>2, <2>1, <3>1 DEF ConversationInv
  <2>8. SyncInv'
    <3> SUFFICES ASSUME NEW e \in Docs
                 PROVE  \E t \in Knowledge :
                          /\ Leads(server[e], toServer', t, e)
                          /\ tag'[e] # 0 /\ sent'[e] # "no"
                               => t.open /\ t.text = text'[e] /\ t.version = version'[e]
      BY <2>1 DEF SyncInv
    <3>1. PICK t \in Knowledge :
            /\ Leads(server[e], toServer, t, e)
            /\ tag[e] # 0 /\ sent[e] # "no" => t.open /\ t.text = text[e] /\ t.version = version[e]
      BY <2>1 DEF SyncInv
    <3>2. Leads(server[e], toServer', After(t, m, e), e) /\ After(t, m, e) \in Knowledge
      BY <2>1, <2>5, <2>6, <3>1, SentOne, AfterType
    <3>3. CASE e = d
      BY <2>2, <3>2, <3>3
    <3>4. CASE e # d
      BY <2>2, <2>5, <3>1, <3>2, <3>4 DEF After
    <3> QED   BY <3>3, <3>4
  <2> QED   BY <2>2, <2>3, <2>4, <2>7, <2>8
<1> QED   BY <1>1, <1>2

(* A tooltip asks for its content, and goes away.                          *)
LEMMA TooltipKeepsInv ==
  ASSUME ClientInv, NEW d \in Docs, ShowTooltip(d) \/ DestroyTooltip(d)
  PROVE  ClientInv'
<1> USE DEF ClientInv
<1>1. CASE ShowTooltip(d)
  <2> DEFINE r == Request("hover", nextId, d)
             h == Handler(nextId, "hover", d)
  <2>1. /\ main = "idle" /\ tag[d] # 0 /\ state = "ready"
        /\ hover' = [hover EXCEPT ![d] = nextId]
        /\ UNCHANGED <<receiver, posted, main, tag, sent, opens, text, version, changes, queued, shown, diagnostics,
                       toClient, server>>
    BY <1>1 DEF ShowTooltip
  <2>2. /\ nextId < MaxRequests /\ nextId' = nextId + 1 /\ handlers' = handlers \cup {h}
        /\ toServer' = toServer \o (<<>> \o <<r>>)
        /\ UNCHANGED <<state, shutdownId>>
    BY <1>1 DEF ShowTooltip, SendRequest, Send
  <2>3. r \in Message
    <3>1. nextId \in Int /\ version'[d] \in 0..MaxVersion /\ text'[d] \in 0..MaxText /\ tag'[d] \in 0..MaxOpens
      BY <2>1 DEF TypeOK, DocumentsInv
    <3> QED   BY <3>1, NotificationIsMessage DEF Request
  <2>4. r.id = nextId /\ nextId \in Nat /\ r.id # None
    <3>1. r.id = nextId
      BY DEF Notification, Request
    <3> QED   BY <3>1, BoundsAreNat DEF TypeOK
  <2>5. h.id = nextId /\ h.kind = "hover" /\ h.doc = d
    BY DEF Handler
  <2>6. /\ HandlersInv' /\ h \notin handlers
        /\ \A g \in handlers' : g.id \in 0..nextId /\ g.kind \in {"initialize", "highlight", "hover", "cancelled"}
    <3>1. tag'[d] \in 0..MaxOpens /\ \A e \in Docs : opens[e] <= opens'[e] /\ opens'[e] \in Nat
      BY <2>1 DEF TypeOK, DocumentsInv
    <3> QED   BY <2>2, <2>4, <3>1, HandlerIsAdded
  <2> HIDE DEF r, h
  <2>7. toServer \in Seq(Message) /\ toServer' = toServer \o <<r>>
    <3>1. <<>> \o <<r>> = <<r>>
      BY <2>3
    <3> QED   BY <2>1, <2>2, <3>1 DEF ConversationInv
  <2>8. TypeOK'
    <3>1. nextId' \in 0..MaxRequests + 1 /\ nextId' - 1 = nextId /\ nextId \in None..MaxRequests
      BY <2>2, BoundsAreNat DEF TypeOK
    <3> QED   BY <2>1, <2>2, <2>6, <3>1 DEF TypeOK
  <2>9. DocumentsInv'
    BY <2>1 DEF DocumentsInv
  <2>10. ConversationInv'
    <3>1. toServer' \in Seq(Message)
      BY <2>3, <2>7, SentOne
    <3> QED   BY <2>1, <2>2, <3>1, BoundsAreNat DEF ConversationInv
  <2>11. AccountsInv'
    <3>1. Highlights' = Highlights
      BY <2>2, <2>5 DEF Highlights
    <3>2. \A e \in Docs : HighlightsOf(e)' = HighlightsOf(e)
      BY <2>1, <3>1 DEF HighlightsOf
    <3>3. hover'[d] = h.id /\ h \in handlers' /\ \A e \in Docs \ {d} : hover'[e] = hover[e]
      BY <2>1, <2>2, <2>5 DEF TypeOK
    <3> QED   BY <2>1, <2>2, <2>5, <3>2, <3>3 DEF AccountsInv
  <2>12. SyncInv'
    <3> SUFFICES ASSUME NEW e \in Docs
                 PROVE  \E t \in Knowledge :
                          /\ Leads(server[e], toServer', t, e)
                          /\ tag[e] # 0 /\ sent[e] # "no" => t.open /\ t.text = text[e] /\ t.version = version[e]
      BY <2>1 DEF SyncInv
    <3>1. PICK t \in Knowledge :
            /\ Leads(server[e], toServer, t, e)
            /\ tag[e] # 0 /\ sent[e] # "no" => t.open /\ t.text = text[e] /\ t.version = version[e]
      BY <2>1 DEF SyncInv
    <3>2. Leads(server[e], toServer', After(t, r, e), e) /\ After(t, r, e) = t
      BY <2>3, <2>4, <2>7, <3>1, SentOne DEF After
    <3> QED   BY <3>1, <3>2
  <2> QED   BY <2>6, <2>8, <2>9, <2>10, <2>11, <2>12
<1>2. CASE DestroyTooltip(d)
  <2>1. CASE main = "done" /\ Crash
    BY <2>1, AssertionKeepsInv
  <2>2. CASE main = "idle" /\ CancelHover({d})
             /\ UNCHANGED <<state, nextId, shutdownId, receiver, posted, main, tag, sent, opens, text, version, changes,
                            queued, shown, diagnostics, toServer, toClient, server>>
    <3> USE <2>2
    <3>1. /\ HandlersInv' /\ AccountsInv'
          /\ hover' \in [Docs -> None..MaxRequests]
          /\ \A h \in handlers' :
               h.id \in 0..nextId' - 1 /\ h.kind \in {"initialize", "highlight", "hover", "cancelled"}
      BY CancelHoverKeepsAccounts
    <3>2. TypeOK'
      BY <3>1 DEF TypeOK
    <3>3. DocumentsInv' /\ ConversationInv'
      BY DEF DocumentsInv, ConversationInv
    <3>4. SyncInv'
      BY DEF SyncInv
    <3> QED   BY <3>1, <3>2, <3>3, <3>4
  <2> QED   BY <1>2, <2>1, <2>2 DEF DestroyTooltip
<1> QED   BY <1>1, <1>2

(* The plugin is disabled: every tag goes away.                            *)
LEMMA DisableKeepsInv == ClientInv /\ Disable => ClientInv'
<1> SUFFICES ASSUME ClientInv, Disable PROVE ClientInv'
  OBVIOUS
<1> USE DEF ClientInv
<1>1. CASE state # "ready"
  BY <1>1, AssertionKeepsInv DEF Disable
<1>2. CASE state = "ready"
  <2>1. /\ main = "idle" /\ DestroyTags(Docs) /\ state' = "shutting_down" /\ main' = "stopping"
        /\ UNCHANGED <<nextId, shutdownId, handlers, receiver, posted, hover, toClient, server>>
    BY <1>2 DEF Disable
  <2>2. /\ DocumentsInv'
        /\ tag' \in [Docs -> 0..MaxOpens] /\ queued' \in [Docs -> Nat]
        /\ sent' \in [Docs -> {"no", "opened", "asked"}] /\ shown' \in [Docs -> None..MaxText]
        /\ \A e \in Docs : version'[e] \in 0..MaxVersion /\ Len(changes'[e]) <= MaxChanges
        /\ \A e \in Docs : tag'[e] = 0
        /\ UNCHANGED <<opens, text>>
    BY <2>1, DestroyTagsKeepsTypes
  <2>3. nextId \in 1..MaxRequests
    BY <2>1 DEF ConversationInv
  <2>4. TypeOK'
    <3> QED   BY <2>1, <2>2 DEF TypeOK
  <2>5. HandlersInv' /\ AccountsInv'
    BY <2>1, <2>2 DEF HandlersInv, AccountsInv, Highlights
  <2>6. ConversationInv' /\ SyncInv'
    BY <2>1, <2>3 DEF ConversationInv, SyncInv
  <2> QED   BY <2>2, <2>4, <2>5, <2>6
<1> QED   BY <1>1, <1>2

(* The id of the shutdown request is stored, then the request is sent.     *)
LEMMA ShutdownRequestKeepsInv == ClientInv /\ SendShutdownRequest => ClientInv'
<1> SUFFICES ASSUME ClientInv, SendShutdownRequest PROVE ClientInv'
  OBVIOUS
<1> USE DEF ClientInv
<1>1. /\ main \in {"stopping", "sending"} /\ main' \in {"sending", "joining"}
      /\ UNCHANGED <<handlers, tag, opens, queued, hover, state, receiver, posted, sent, text, version, changes, shown>>
  BY DEF SendShutdownRequest, documentVars
<1>2. nextId' \in 0..MaxRequests + 1 /\ shutdownId' \in None..MaxRequests /\ \A h \in handlers' : h.id \in 0..nextId' - 1
  <2>1. CASE main = "stopping"
    <3>1. shutdownId' = nextId /\ nextId' = nextId + 1 /\ nextId \in 1..MaxRequests /\ \A h \in handlers : h.id \in 0..nextId - 1
      BY <2>1 DEF SendShutdownRequest, ConversationInv, TypeOK
    <3> QED   BY <1>1, <3>1, BoundsAreNat DEF None
  <2>2. CASE main = "sending"
    BY <1>1, <2>2 DEF SendShutdownRequest, TypeOK
  <2> QED   BY <1>1, <2>1, <2>2
<1>3. TypeOK' /\ DocumentsInv'
  BY <1>1, <1>2 DEF TypeOK, DocumentsInv
<1>4. HandlersInv' /\ AccountsInv'
  BY <1>1 DEF HandlersInv, AccountsInv, Highlights, HighlightsOf
<1>5. ConversationInv' /\ SyncInv'
  BY <1>1 DEF ConversationInv, SyncInv
<1> QED   BY <1>3, <1>4, <1>5

-----------------------------------------------------------------------------
(* A reply is handled: what is left of the handlers and of the callbacks.  *)
LEMMA ReplyIsTaken ==
  ASSUME ClientInv, NEW h \in handlers, TakesReply(h), TakeReply(h)
  PROVE  /\ main = "idle" /\ handlers' = handlers \ {h}
         /\ posted' \in Seq(Answer) /\ Head(posted) \in Answer
         /\ HandlersInv'
         /\ UNCHANGED <<nextId, shutdownId, receiver, main, tag, sent, opens, text, version, changes, diagnostics,
                        toClient, server>>
<1> USE DEF ClientInv
<1>1. /\ main = "idle" /\ posted # <<>>
      /\ posted' = Tail(posted)
      /\ handlers' = handlers \ {h}
      /\ UNCHANGED <<nextId, shutdownId, receiver, main, tag, sent, opens, text, version, changes, diagnostics,
                     toClient, server>>
  BY DEF TakesReply, TakeReply
<1>2. posted' \in Seq(Answer) /\ Head(posted) \in Answer
  <2>1. posted \in Seq(Answer)
    BY <1>1 DEF ConversationInv
  <2> QED   BY <1>1, <2>1, HeadTailProperties
<1>3. HandlersInv'
  <2>1. Highlights' \subseteq Highlights
    BY <1>1 DEF Highlights
  <2>2. IsFiniteSet(Highlights')
    BY <2>1, FS_Subset DEF HandlersInv
  <2> QED   BY <1>1, <2>1, <2>2 DEF HandlersInv
<1> QED   BY <1>1, <1>2, <1>3

(* What is not about a highlight leaves the counts.                        *)
LEMMA OtherReplyKeepsInv ==
  ASSUME ClientInv, NEW h \in handlers, OnInitialize(h) \/ OnHover(h) \/ OnCancelled(h)
  PROVE  ClientInv'
<1> USE DEF ClientInv
<1>1. /\ TakesReply(h) /\ TakeReply(h)
      /\ h.kind \in {"initialize", "hover", "cancelled"} /\ UNCHANGED <<queued, shown>>
      /\ \/ /\ h.kind = "initialize" /\ state' = "ready" /\ Send(<<Bare("initialized", None)>>)
            /\ UNCHANGED hover
         \/ h.kind = "hover" /\ hover' = [hover EXCEPT ![h.doc] = None] /\ UNCHANGED <<state, toServer>>
         \/ h.kind = "cancelled" /\ UNCHANGED <<state, hover, toServer>>
  BY DEF OnInitialize, OnHover, OnCancelled
<1>2. /\ main = "idle" /\ handlers' = handlers \ {h} /\ posted' \in Seq(Answer)
      /\ HandlersInv'
      /\ UNCHANGED <<nextId, shutdownId, receiver, main, tag, sent, opens, text, version, changes, diagnostics,
                     toClient, server>>
  BY <1>1, ReplyIsTaken
<1>3. hover' \in [Docs -> None..MaxRequests]
  <2>1. hover \in [Docs -> None..MaxRequests] /\ None \in None..MaxRequests
    BY BoundsAreNat DEF TypeOK
  <2>2. hover' = hover \/ hover' = [hover EXCEPT ![h.doc] = None]
    BY <1>1
  <2> HIDE DEF ClientInv
  <2> QED   BY <2>1, <2>2
<1>4. TypeOK'
  BY <1>1, <1>2, <1>3 DEF TypeOK
<1>5. DocumentsInv'
  BY <1>2 DEF DocumentsInv
<1>6. AccountsInv'
  <2>1. Highlights' = Highlights
    BY <1>1, <1>2 DEF Highlights
  <2> SUFFICES ASSUME NEW d \in Docs
               PROVE  /\ hover'[d] # None => \E g \in handlers' : g.id = hover'[d] /\ g.kind = "hover" /\ g.doc = d
                      /\ tag'[d] # 0 => queued'[d] = Cardinality(HighlightsOf(d)')
    BY DEF AccountsInv
  <2>2. HighlightsOf(d)' = HighlightsOf(d)
    BY <1>2, <2>1 DEF HighlightsOf
  <2>3. hover'[d] # None => \E g \in handlers' : g.id = hover'[d] /\ g.kind = "hover" /\ g.doc = d
    <3> SUFFICES ASSUME hover'[d] # None
                 PROVE  \E g \in handlers' : g.id = hover'[d] /\ g.kind = "hover" /\ g.doc = d
      OBVIOUS
    <3>1. hover'[d] = hover[d] /\ (h.kind = "hover" => h.doc # d)
      BY <1>1 DEF TypeOK
    <3>2. PICK g \in handlers : g.id = hover[d] /\ g.kind = "hover" /\ g.doc = d
      BY <1>2, <3>1 DEF AccountsInv
    <3>3. g # h
      BY <1>1, <3>1, <3>2
    <3> QED   BY <1>2, <3>1, <3>2, <3>3
  <2> QED   BY <1>1, <1>2, <2>2, <2>3 DEF AccountsInv
<1>7. ConversationInv' /\ SyncInv'
  <2>1. CASE UNCHANGED <<state, toServer>>
    BY <1>2, <2>1 DEF ConversationInv, SyncInv
  <2>2. CASE state' = "ready" /\ Send(<<Bare("initialized", None)>>)
    <3> DEFINE m == Bare("initialized", None)
    <3>1. m \in Message /\ m.doc = None
      BY BoundsAreNat DEF Bare, Message
    <3> HIDE DEF m
    <3>2. toServer \in Seq(Message) /\ toServer' = toServer \o <<m>>
      BY <1>2, <2>2 DEF ConversationInv, Send, m
    <3>3. toServer' \in Seq(Message)
      BY <3>1, <3>2, SentOne
    <3>4. ConversationInv'
      BY <1>2, <2>2, <3>3 DEF ConversationInv
    <3>5. ASSUME NEW d \in Docs
          PROVE  \E t \in Knowledge :
                   /\ Leads(server[d], toServer', t, d)
                   /\ tag[d] # 0 /\ sent[d] # "no" => t.open /\ t.text = text[d] /\ t.version = version[d]
      <4>1. PICK t \in Knowledge :
              /\ Leads(server[d], toServer, t, d)
              /\ tag[d] # 0 /\ sent[d] # "no" => t.open /\ t.text = text[d] /\ t.version = version[d]
        BY <1>2 DEF SyncInv
      <4>2. Leads(server[d], toServer', After(t, m, d), d) /\ After(t, m, d) = t
        BY <3>1, <3>2, <4>1, SentOne, BoundsAreNat DEF After
      <4> QED   BY <4>1, <4>2
    <3>6. SyncInv'
      BY <1>2, <3>5 DEF SyncInv
    <3> QED   BY <3>4, <3>6
  <2> QED   BY <1>1, <2>1, <2>2
<1> QED   BY <1>2, <1>4, <1>5, <1>6, <1>7

(* A reply to a request for highlights, or an error, is one less to come.  *)
LEMMA HighlightKeepsInv ==
  ASSUME ClientInv, NEW h \in handlers, OnSemanticTokens(h)
  PROVE  ClientInv'
<1> USE DEF ClientInv
<1> DEFINE d == h.doc
<1>1. /\ TakesReply(h) /\ TakeReply(h) /\ h.kind = "highlight" /\ tag[d] = h.tag
      /\ queued' = [queued EXCEPT ![d] = @ - 1]
      /\ shown' = IF Head(posted).outcome = "result" /\ queued[d] = 1
                    THEN [shown EXCEPT ![d] = Head(posted).text] ELSE shown
      /\ UNCHANGED <<state, hover, toServer>>
  BY DEF OnSemanticTokens
<1>2. /\ main = "idle" /\ handlers' = handlers \ {h} /\ posted' \in Seq(Answer) /\ Head(posted) \in Answer
      /\ HandlersInv'
      /\ UNCHANGED <<nextId, shutdownId, receiver, main, tag, sent, opens, text, version, changes, diagnostics,
                     toClient, server>>
  BY <1>1, ReplyIsTaken
<1>3. h \in Highlights /\ d \in Docs /\ h.tag > 0
  BY <1>1 DEF HandlersInv, Highlights
<1>4. h \in HighlightsOf(d) /\ IsFiniteSet(HighlightsOf(d)) /\ tag[d] # 0
  <2>1. HighlightsOf(d) \subseteq Highlights
    BY DEF HighlightsOf
  <2>2. IsFiniteSet(HighlightsOf(d))
    BY <2>1, FS_Subset DEF HandlersInv
  <2> QED   BY <1>1, <1>3, <2>2, BoundsAreNat DEF HighlightsOf, HandlersInv, Handlers, TypeOK
<1> HIDE DEF d
<1>5. HighlightsOf(d)' = HighlightsOf(d) \ {h}
  BY <1>2 DEF HighlightsOf, Highlights
<1>6. Cardinality(HighlightsOf(d)') = Cardinality(HighlightsOf(d)) - 1
  BY <1>4, <1>5, FS_RemoveElement
<1>7. queued[d] = Cardinality(HighlightsOf(d)) /\ queued[d] \in Nat \ {0}
  <2>1. queued[d] = Cardinality(HighlightsOf(d))
    BY <1>2, <1>3, <1>4 DEF AccountsInv
  <2>2. Cardinality(HighlightsOf(d)) # 0
    BY <1>4, FS_EmptySet
  <2> QED   BY <1>3, <2>1, <2>2 DEF TypeOK
<1>8. \A e \in Docs \ {d} : HighlightsOf(e)' = HighlightsOf(e) /\ queued'[e] = queued[e]
  <2>1. handlers' = handlers \ {h} /\ tag' = tag /\ queued' = [queued EXCEPT ![d] = @ - 1] /\ h.doc = d
    BY <1>1, <1>2 DEF d
  <2>2. queued \in [Docs -> Nat]
    BY DEF TypeOK
  <2> HIDE DEF ClientInv, d
  <2>3. \A e \in Docs \ {d} : HighlightsOf(e)' = HighlightsOf(e)
    BY <2>1 DEF HighlightsOf, Highlights
  <2> QED   BY <2>1, <2>2, <2>3
<1>9. TypeOK'
  <2>1. queued' \in [Docs -> Nat]
    <3>1. queued \in [Docs -> Nat] /\ queued[d] - 1 \in Nat /\ d \in Docs
      BY <1>3, <1>7 DEF TypeOK
    <3> QED   BY <1>1, <3>1 DEF d
  <2>2. shown' \in [Docs -> None..MaxText]
    <3>1. Head(posted).text \in None..MaxText
      BY <1>2 DEF Answer
    <3>2. shown' = shown \/ shown' = [shown EXCEPT ![d] = Head(posted).text]
      BY <1>1
    <3>3. shown \in [Docs -> None..MaxText]
      BY DEF TypeOK
    <3> DEFINE x == Head(posted).text
               S == None..MaxText
    <3> HIDE DEF ClientInv, x, S
    <3>4. CASE shown' = shown
      BY <3>3, <3>4 DEF S
    <3>5. CASE shown' = [shown EXCEPT ![d] = x]
      <4>1. x \in S /\ shown \in [Docs -> S]
        BY <3>1, <3>3 DEF x, S
      <4>2. shown' \in [Docs -> S]
        BY <3>5, <4>1
      <4> QED   BY <4>2 DEF S
    <3> QED   BY <3>2, <3>4, <3>5 DEF x
  <2> QED   BY <1>1, <1>2, <2>1, <2>2 DEF TypeOK
<1>10. DocumentsInv'
  BY <1>2 DEF DocumentsInv
<1>11. AccountsInv'
  <2> SUFFICES ASSUME NEW e \in Docs
               PROVE  /\ hover[e] # None => \E g \in handlers' : g.id = hover[e] /\ g.kind = "hover" /\ g.doc = e
                      /\ tag[e] # 0 => queued'[e] = Cardinality(HighlightsOf(e)')
    BY <1>1, <1>2 DEF AccountsInv
  <2>1. hover[e] # None => \E g \in handlers' : g.id = hover[e] /\ g.kind = "hover" /\ g.doc = e
    BY <1>1, <1>2 DEF AccountsInv
  <2>2. tag[e] # 0 => queued[e] = Cardinality(HighlightsOf(e))
    BY <1>2 DEF AccountsInv
  <2>3. queued'[d] = queued[d] - 1
    BY <1>1, <1>3 DEF TypeOK, d
  <2> QED   BY <1>6, <1>7, <1>8, <2>1, <2>2, <2>3
<1>12. ConversationInv' /\ SyncInv'
  BY <1>1, <1>2 DEF ConversationInv, SyncInv
<1> QED   BY <1>2, <1>9, <1>10, <1>11, <1>12

LEMMA DiagnosticsKeepInv == ClientInv /\ OnPublishDiagnostics => ClientInv'
<1> SUFFICES ASSUME ClientInv, OnPublishDiagnostics PROVE ClientInv'
  OBVIOUS
<1> USE DEF ClientInv, clientVars
<1>1. /\ main = "idle" /\ posted # <<>> /\ posted' = Tail(posted)
      /\ UNCHANGED <<clientVars, receiver, main, tag, sent, opens, text, version, changes, queued, shown, hover,
                     toServer, toClient, server>>
  BY DEF OnPublishDiagnostics
<1>2. posted' \in Seq(Answer)
  <2>1. posted \in Seq(Answer)
    BY <1>1 DEF ConversationInv
  <2> QED   BY <1>1, <2>1, HeadTailProperties
<1>3. TypeOK' /\ DocumentsInv'
  BY <1>1 DEF TypeOK, DocumentsInv
<1>4. HandlersInv' /\ AccountsInv'
  BY <1>1, UnchangedAccounts
<1>5. ConversationInv' /\ SyncInv'
  BY <1>1, <1>2 DEF ConversationInv, SyncInv
<1> QED   BY <1>3, <1>4, <1>5

LEMMA StutterKeepsInv == ClientInv /\ UNCHANGED vars => ClientInv'
<1> SUFFICES ASSUME ClientInv, UNCHANGED vars PROVE ClientInv'
  OBVIOUS
<1> USE DEF ClientInv, vars, clientVars, documentVars
<1>1. TypeOK' /\ DocumentsInv'
  BY DEF TypeOK, DocumentsInv
<1>2. HandlersInv' /\ AccountsInv'
  BY UnchangedAccounts
<1>3. ConversationInv' /\ SyncInv'
  BY DEF ConversationInv, SyncInv
<1> QED   BY <1>1, <1>2, <1>3

LEMMA NextKeepsInv == ClientInv /\ [Next]_vars => ClientInv'
<1> SUFFICES ASSUME ClientInv, [Next]_vars PROVE ClientInv'
  OBVIOUS
<1>1. CASE User
  BY <1>1, OpenKeepsInv, EditKeepsInv, ChangeLanguageKeepsInv, CloseKeepsInv, TooltipKeepsInv, DisableKeepsInv
     DEF User
<1>2. CASE SendShutdownRequest \/ JoinReceiver \/ Receive
  BY <1>2, ShutdownRequestKeepsInv, ReceiverKeepsInv
<1>3. CASE Callback
  BY <1>3, OtherReplyKeepsInv, HighlightKeepsInv, AssertionKeepsInv, DiagnosticsKeepInv
     DEF Callback, OnSemanticTokensDangling, CallbackDangling
<1>4. CASE Server
  BY <1>4, ServerKeepsInv
<1>5. CASE UNCHANGED vars
  BY <1>5, StutterKeepsInv
<1> QED   BY <1>1, <1>2, <1>3, <1>4, <1>5 DEF Next

LEMMA ClientInvHolds == Spec => []ClientInv
BY InitKeepsInv, NextKeepsInv, PTL DEF Spec

-----------------------------------------------------------------------------
(* Every request is accounted for: the token of a tooltip refers to a      *)
(* handler that is registered, and the count of highlights to come is that *)
(* of the handlers that will lower it, when they are run.                  *)
THEOREM RequestsAccounted == Spec => []RequestsInv
<1>1. ClientInv => RequestsInv
  <2> SUFFICES ASSUME ClientInv PROVE RequestsInv
    OBVIOUS
  <2>1. \A d \in Docs : HighlightsOf(d) = {h \in handlers : h.kind = "highlight" /\ h.doc = d /\ h.tag = tag[d]}
    BY DEF HighlightsOf, Highlights
  <2> QED   BY <2>1 DEF ClientInv, AccountsInv, RequestsInv
<1> QED   BY <1>1, ClientInvHolds, PTL

(* Incremental changes add up, whatever is edited, closed and opened while *)
(* earlier messages are under way: a server that has read everything about *)
(* a document has its text and its version.                                *)
THEOREM ServerHasTheText == Spec => []ServerInSync
<1>1. ClientInv => ServerInSync
  <2> SUFFICES ASSUME ClientInv, NEW d \in Docs, tag[d] # 0, sent[d] # "no", main = "idle",
                      \A i \in DOMAIN toServer : toServer[i].doc # d
               PROVE  server[d].open /\ server[d].text = text[d] /\ server[d].version = version[d]
    BY DEF ServerInSync
  <2>1. PICK t \in Knowledge :
          /\ Leads(server[d], toServer, t, d)
          /\ t.open /\ t.text = text[d] /\ t.version = version[d]
    BY DEF ClientInv, SyncInv
  <2>2. toServer \in Seq(Message) /\ \A i \in 1..Len(toServer) : toServer[i].doc # d
    BY LenProperties DEF ClientInv, ConversationInv
  <2>3. t = server[d]
    BY <2>1, <2>2, LeadsNowhere, Zenon
  <2> QED   BY <2>1, <2>3
<1> QED   BY <1>1, ClientInvHolds, PTL

-----------------------------------------------------------------------------
(* What the server will know, message by message, and for which request.   *)
Path(seen, s, q, d) ==
  /\ seen \in [0..Len(q) -> Knowledge] /\ seen[0] = s
  /\ \A i \in 1..Len(q) : seen[i] = After(seen[i - 1], q[i], d)
Seen(s, q, d) ==
  {p \in Int \X Knowledge :
     \E seen \in [0..Len(q) -> Knowledge] :
       /\ Path(seen, s, q, d)
       /\ p = <<None, s>> \/ \E i \in 1..Len(q) : p = <<q[i].id, seen[i]>>}

(* The requests of a queue, which are numbered in the order in which they  *)
(* are sent.                                                               *)
Ids(q) == {q[i].id : i \in 1..Len(q)} \ {None}

LEMMA PathIsUnique ==
  ASSUME NEW s, NEW q \in Seq(Message), NEW d, NEW a, NEW b, Path(a, s, q, d), Path(b, s, q, d)
  PROVE  \A n \in 0..Len(q) : a[n] = b[n]
<1> DEFINE same == {n \in Nat : n <= Len(q) => a[n] = b[n]}
<1>1. 0 \in same
  BY DEF Path
<1>2. ASSUME NEW n \in Nat, n \in same PROVE n + 1 \in same
  <2> SUFFICES ASSUME n + 1 <= Len(q) PROVE a[n + 1] = b[n + 1]
    OBVIOUS
  <2>1. n + 1 \in 1..Len(q) /\ (n + 1) - 1 = n /\ n <= Len(q)
    BY LenProperties
  <2> QED   BY <1>2, <2>1 DEF Path
<1> HIDE DEF same
<1>3. Nat \subseteq same
  BY <1>1, <1>2, InductionOnNumbers
<1>4. \A n \in 0..Len(q) : n \in Nat /\ n <= Len(q)
  BY LenProperties
<1> QED   BY <1>3, <1>4 DEF same

LEMMA SeenProperties ==
  ASSUME NEW s, NEW q \in Seq(Message), NEW t, NEW d, Leads(s, q, t, d)
  PROVE  /\ \A p \in Seen(s, q, d) : p[1] \in {None} \cup Ids(q) /\ p[2] \in Knowledge
         /\ <<None, s>> \in Seen(s, q, d)
         /\ \E n \in Int : <<n, t>> \in Seen(s, q, d)
<1>1. PICK seen \in [0..Len(q) -> Knowledge] : Path(seen, s, q, d) /\ seen[Len(q)] = t
  BY DEF Leads, Path
<1>2. Len(q) \in Nat /\ None \in Int /\ \A i \in 1..Len(q) : q[i] \in Message /\ q[i].id \in Int
  BY LenProperties, NoneOfThem, BoundsAreNat
<1>3. seen[0] = s /\ s \in Knowledge
  BY <1>1, <1>2 DEF Path
<1>4. <<None, s>> \in Seen(s, q, d)
  BY <1>1, <1>2, <1>3 DEF Seen
<1>5. \E n \in Int : <<n, t>> \in Seen(s, q, d)
  <2>1. CASE Len(q) = 0
    BY <1>1, <1>2, <1>3, <1>4, <2>1
  <2>2. CASE Len(q) # 0
    <3>1. Len(q) \in 1..Len(q) /\ Len(q) \in 0..Len(q)
      BY <1>2, <2>2
    <3>2. q[Len(q)].id \in Int /\ t \in Knowledge
      BY <1>1, <1>2, <3>1
    <3>3. <<q[Len(q)].id, t>> \in Seen(s, q, d)
      BY <1>1, <3>1, <3>2 DEF Seen
    <3> QED   BY <3>2, <3>3
  <2> QED   BY <2>1, <2>2
<1>6. \A p \in Seen(s, q, d) : p[1] \in {None} \cup Ids(q) /\ p[2] \in Knowledge
  <2> SUFFICES ASSUME NEW p \in Seen(s, q, d) PROVE p[1] \in {None} \cup Ids(q) /\ p[2] \in Knowledge
    OBVIOUS
  <2>1. p \in Int \X Knowledge /\ (p = <<None, s>> \/ \E i \in 1..Len(q) : p[1] = q[i].id)
    BY DEF Seen
  <2> QED   BY <2>1 DEF Ids
<1> QED   BY <1>4, <1>5, <1>6

(* A message that is sent adds what the server will know after it.         *)
LEMMA PathAppend ==
  ASSUME NEW s, NEW q \in Seq(Message), NEW t, NEW d, Leads(s, q, t, d), NEW m \in Message,
         NEW seen \in [0..Len(q) + 1 -> Knowledge], Path(seen, s, Append(q, m), d)
  PROVE  /\ seen[Len(q) + 1] = After(t, m, d)
         /\ \A old \in [0..Len(q) -> Knowledge] : Path(old, s, q, d) => \A i \in 0..Len(q) : seen[i] = old[i]
<1> DEFINE n == Len(q)
           r == Append(q, m)
           first == [i \in 0..n |-> seen[i]]
<1>1. /\ n \in Nat /\ Len(r) = n + 1 /\ r[n + 1] = m
      /\ \A i \in 1..n : r[i] = q[i]
  BY AppendProperties, LenProperties
<1>2. PICK last \in [0..n -> Knowledge] : Path(last, s, q, d) /\ last[n] = t
  BY DEF Leads, Path
<1> HIDE DEF n, r
<1>3. first \in [0..n -> Knowledge] /\ first[0] = s
  BY <1>1 DEF Path, r, n
<1>4. ASSUME NEW i \in 1..n PROVE first[i] = After(first[i - 1], q[i], d)
  <2>1. i \in 0..n /\ i - 1 \in 0..n /\ i \in 1..Len(r)
    BY <1>1
  <2>2. seen[i] = After(seen[i - 1], r[i], d)
    BY <2>1 DEF Path, r
  <2> QED   BY <1>1, <2>1, <2>2
<1>5. Path(first, s, q, d)
  BY <1>3, <1>4 DEF Path, n
<1>6. \A old \in [0..n -> Knowledge] : Path(old, s, q, d) => \A i \in 0..n : first[i] = old[i]
  BY <1>5, PathIsUnique DEF n
<1>7. \A i \in 0..n : first[i] = seen[i]
  OBVIOUS
<1> HIDE DEF first
<1>8. n \in 0..n /\ n + 1 \in 1..Len(r) /\ (n + 1) - 1 = n
  BY <1>1
<1>9. seen[n + 1] = After(seen[n], m, d)
  BY <1>1, <1>8 DEF Path, r
<1> QED   BY <1>2, <1>6, <1>7, <1>8, <1>9 DEF n

LEMMA EndAppend ==
  ASSUME NEW s, NEW q \in Seq(Message), NEW t, NEW d, Leads(s, q, t, d), NEW m \in Message,
         NEW u, Leads(s, Append(q, m), u, d)
  PROVE  u = After(t, m, d)
<1>1. Len(Append(q, m)) = Len(q) + 1
  BY AppendProperties
<1>2. PICK seen \in [0..Len(q) + 1 -> Knowledge] : Path(seen, s, Append(q, m), d) /\ seen[Len(q) + 1] = u
  BY <1>1 DEF Leads, Path
<1> QED   BY <1>2, PathAppend

LEMMA SeenAppend ==
  ASSUME NEW s, NEW q \in Seq(Message), NEW t, NEW d, Leads(s, q, t, d), NEW m \in Message
  PROVE  Seen(s, Append(q, m), d) \subseteq Seen(s, q, d) \cup {<<m.id, After(t, m, d)>>}
<1> DEFINE n == Len(q)
           r == Append(q, m)
<1>1. /\ n \in Nat /\ Len(r) = n + 1 /\ r[n + 1] = m
      /\ \A i \in 1..n : r[i] = q[i]
  BY AppendProperties, LenProperties
<1>2. PICK old \in [0..n -> Knowledge] : Path(old, s, q, d)
  BY DEF Leads, Path
<1> SUFFICES ASSUME NEW p \in Seen(s, r, d) PROVE p \in Seen(s, q, d) \cup {<<m.id, After(t, m, d)>>}
  OBVIOUS
<1>3. PICK seen \in [0..n + 1 -> Knowledge] :
        /\ Path(seen, s, r, d)
        /\ p = <<None, s>> \/ \E i \in 1..n + 1 : p = <<r[i].id, seen[i]>>
  BY <1>1 DEF Seen
<1>4. seen[n + 1] = After(t, m, d) /\ \A i \in 0..n : seen[i] = old[i]
  BY <1>2, <1>3, PathAppend
<1> HIDE DEF n, r
<1>5. p \in Int \X Knowledge
  BY DEF Seen
<1>6. CASE p = <<None, s>>
  BY <1>2, <1>5, <1>6 DEF Seen, n
<1>7. ASSUME NEW i \in 1..n + 1, p = <<r[i].id, seen[i]>>
      PROVE  p \in Seen(s, q, d) \cup {<<m.id, After(t, m, d)>>}
  <2>1. CASE i = n + 1
    BY <1>1, <1>4, <1>7, <2>1
  <2>2. CASE i # n + 1
    <3>1. i \in 1..n /\ i \in 0..n
      BY <1>1, <2>2
    <3>2. p = <<q[i].id, old[i]>>
      BY <1>1, <1>4, <1>7, <3>1
    <3> QED   BY <1>2, <1>5, <3>1, <3>2 DEF Seen, n
  <2> QED   BY <2>1, <2>2
<1> QED   BY <1>3, <1>6, <1>7

(* A message that is handled has been seen for the request that it is.     *)
LEMMA PathTail ==
  ASSUME NEW s, NEW q \in Seq(Message), q # <<>>, NEW d, NEW k, k = After(s, Head(q), d),
         NEW old \in [0..Len(q) -> Knowledge], Path(old, s, q, d),
         NEW seen \in [0..Len(q) - 1 -> Knowledge], Path(seen, k, Tail(q), d)
  PROVE  \A i \in 0..Len(q) - 1 : seen[i] = old[i + 1]
<1> DEFINE n == Len(q)
           r == Tail(q)
           whole == [i \in 0..n |-> IF i = 0 THEN s ELSE seen[i - 1]]
<1>1. /\ n \in Nat /\ n > 0 /\ Len(r) = n - 1 /\ Head(q) = q[1]
      /\ \A i \in 1..n - 1 : r[i] = q[i + 1]
  BY HeadTailProperties, LenProperties, EmptySeq
<1> HIDE DEF n, r
<1>2. s \in Knowledge /\ seen \in [0..n - 1 -> Knowledge] /\ seen[0] = k
  BY <1>1 DEF Path, n
<1>3. whole \in [0..n -> Knowledge] /\ whole[0] = s
  <2>1. \A i \in 0..n : i # 0 => i - 1 \in 0..n - 1
    BY <1>1
  <2> QED   BY <1>1, <1>2, <2>1
<1>4. ASSUME NEW i \in 1..n PROVE whole[i] = After(whole[i - 1], q[i], d)
  <2>1. CASE i = 1
    <3>1. whole[1] = seen[0] /\ whole[0] = s
      BY <1>1
    <3> HIDE DEF whole
    <3> QED   BY <1>1, <1>2, <2>1, <3>1
  <2>2. CASE i # 1
    <3>1. i - 1 \in 1..Len(r) /\ i \in 0..n /\ i - 1 \in 0..n /\ i - 1 # 0 /\ i # 0
      BY <1>1, <2>2
    <3>2. whole[i] = seen[i - 1] /\ whole[i - 1] = seen[(i - 1) - 1]
      BY <3>1
    <3>3. seen[i - 1] = After(seen[(i - 1) - 1], r[i - 1], d)
      BY <3>1 DEF Path, r
    <3>4. r[i - 1] = q[i]
      <4>1. (i - 1) + 1 = i /\ i - 1 \in 1..n - 1
        BY <1>1, <3>1
      <4> QED   BY <1>1, <4>1
    <3> QED   BY <3>2, <3>3, <3>4
  <2> QED   BY <2>1, <2>2
<1>5. Path(whole, s, q, d)
  BY <1>3, <1>4 DEF Path, n
<1>6. \A i \in 0..n : whole[i] = old[i]
  BY <1>5, PathIsUnique DEF n
<1> SUFFICES ASSUME NEW i \in 0..n - 1 PROVE seen[i] = old[i + 1]
  BY DEF n
<1>7. i + 1 \in 0..n /\ i + 1 # 0 /\ (i + 1) - 1 = i
  BY <1>1
<1>8. whole[i + 1] = seen[i]
  BY <1>7
<1> QED   BY <1>6, <1>7, <1>8

LEMMA EndTail ==
  ASSUME NEW s, NEW q \in Seq(Message), q # <<>>, NEW t, NEW d, Leads(s, q, t, d),
         NEW k, k = After(s, Head(q), d), NEW u, Leads(k, Tail(q), u, d)
  PROVE  u = t
<1>1. Len(Tail(q)) = Len(q) - 1 /\ Len(q) \in Nat /\ Len(q) > 0
  BY HeadTailProperties, LenProperties, EmptySeq
<1>2. PICK old \in [0..Len(q) -> Knowledge] : Path(old, s, q, d) /\ old[Len(q)] = t
  BY DEF Leads, Path
<1>3. PICK seen \in [0..Len(q) - 1 -> Knowledge] : Path(seen, k, Tail(q), d) /\ seen[Len(q) - 1] = u
  BY <1>1 DEF Leads, Path
<1>4. \A i \in 0..Len(q) - 1 : seen[i] = old[i + 1]
  BY <1>2, <1>3, PathTail
<1>5. Len(q) - 1 \in 0..Len(q) - 1 /\ (Len(q) - 1) + 1 = Len(q)
  BY <1>1
<1> QED   BY <1>2, <1>3, <1>4, <1>5

LEMMA SeenTail ==
  ASSUME NEW s, NEW q \in Seq(Message), q # <<>>, NEW t, NEW d, Leads(s, q, t, d),
         NEW k, k = After(s, Head(q), d)
  PROVE  /\ <<Head(q).id, k>> \in Seen(s, q, d)
         /\ Seen(k, Tail(q), d) \subseteq Seen(s, q, d) \cup {<<None, k>>}
<1> DEFINE n == Len(q)
           r == Tail(q)
<1>1. /\ n \in Nat /\ n > 0 /\ Len(r) = n - 1 /\ Head(q) = q[1] /\ r \in Seq(Message)
      /\ \A i \in 1..n - 1 : r[i] = q[i + 1]
      /\ \A i \in 1..n : q[i] \in Message /\ q[i].id \in Int
  BY HeadTailProperties, LenProperties, EmptySeq, NoneOfThem
<1>2. PICK old \in [0..n -> Knowledge] : Path(old, s, q, d) /\ old[n] = t
  BY DEF Leads, Path
<1>3. old[1] = k /\ k \in Knowledge /\ old[0] = s
  <2>1. 1 \in 1..n /\ 1 - 1 = 0 /\ 1 \in 0..n
    BY <1>1
  <2> QED   BY <1>1, <1>2, <2>1 DEF Path
<1>4. <<Head(q).id, k>> \in Seen(s, q, d)
  <2>1. 1 \in 1..Len(q) /\ Head(q).id = q[1].id /\ q[1].id \in Int
    BY <1>1
  <2>2. <<q[1].id, old[1]>> \in Int \X Knowledge
    BY <1>3, <2>1
  <2> QED   BY <1>2, <1>3, <2>1, <2>2 DEF Seen
<1>5. ASSUME NEW p \in Seen(k, r, d) PROVE p \in Seen(s, q, d) \cup {<<None, k>>}
  <2>1. PICK seen \in [0..n - 1 -> Knowledge] :
          /\ Path(seen, k, r, d)
          /\ p = <<None, k>> \/ \E i \in 1..n - 1 : p = <<r[i].id, seen[i]>>
    BY <1>1, <1>5 DEF Seen
  <2>2. p \in Int \X Knowledge
    BY <1>5 DEF Seen
  <2>3. \A i \in 0..n - 1 : seen[i] = old[i + 1]
    BY <1>2, <2>1, PathTail
  <2> HIDE DEF n, r
  <2>4. ASSUME NEW i \in 1..n - 1, p = <<r[i].id, seen[i]>>
        PROVE  p \in Seen(s, q, d)
    <3>1. i \in 0..n - 1 /\ i + 1 \in 1..Len(q)
      BY <1>1 DEF n
    <3>2. p = <<q[i + 1].id, old[i + 1]>>
      BY <1>1, <2>3, <2>4, <3>1
    <3> QED   BY <1>2, <2>2, <3>1, <3>2 DEF Seen, n
  <2> QED   BY <2>1, <2>4
<1> QED   BY <1>4, <1>5

-----------------------------------------------------------------------------
(* Requests, replies and callbacks keep the order in which the requests    *)
(* were sent.                                                              *)
Rising(q) == \A i, j \in 1..Len(q) : i < j /\ q[i].id # None /\ q[j].id # None => q[i].id < q[j].id
Earlier(A, B) == \A a \in A, b \in B : a < b
UnderWay(p, c, q) == Ids(p) \cup Ids(c) \cup Ids(q)
Ordered(p, c, q, n) ==
  /\ Rising(p) /\ Rising(c) /\ Rising(q)
  /\ Earlier(Ids(p), Ids(c)) /\ Earlier(Ids(p), Ids(q)) /\ Earlier(Ids(c), Ids(q))
  /\ UnderWay(p, c, q) \subseteq 0..n - 1

LEMMA AnswerIds == \A a \in Answer : a.id \in Int
BY DEF Answer

LEMMA IdsAppend ==
  ASSUME NEW S, \A x \in S : x.id \in Int, NEW q \in Seq(S), NEW m \in S
  PROVE  /\ Ids(Append(q, m)) = Ids(q) \cup ({m.id} \ {None})
         /\ ElementsOf(Append(q, m)) = ElementsOf(q) \cup {m}
         /\ Rising(q) /\ (m.id = None \/ \A a \in Ids(q) : a < m.id) => Rising(Append(q, m))
<1> DEFINE n == Len(q)
           r == Append(q, m)
<1>1. /\ n \in Nat /\ Len(r) = n + 1 /\ r[n + 1] = m
      /\ \A i \in 1..n : r[i] = q[i]
  BY AppendProperties, LenProperties
<1>2. \A i \in 1..n + 1 : i = n + 1 \/ i \in 1..n
  BY <1>1
<1>3. \A i \in 1..n : i \in 1..n + 1
  BY <1>1
<1>4. n + 1 \in 1..n + 1
  BY <1>1
<1> HIDE DEF n, r
<1>5. ElementsOf(r) = ElementsOf(q) \cup {m}
  BY <1>1, <1>2, <1>3, <1>4 DEF ElementsOf, n
<1>6. Ids(r) = Ids(q) \cup ({m.id} \ {None})
  BY <1>1, <1>2, <1>3, <1>4 DEF Ids, n
<1>7. ASSUME Rising(q), m.id = None \/ \A a \in Ids(q) : a < m.id PROVE Rising(r)
  <2> SUFFICES ASSUME NEW i \in 1..Len(r), NEW j \in 1..Len(r), i < j, r[i].id # None, r[j].id # None
               PROVE  r[i].id < r[j].id
    BY DEF Rising
  <2>1. i \in 1..n /\ r[i] = q[i]
    BY <1>1, <1>2
  <2>2. CASE j = n + 1
    <3>1. q[i].id \in Ids(q)
      BY <2>1 DEF Ids, n
    <3> QED   BY <1>1, <1>7, <2>1, <2>2, <3>1
  <2>3. CASE j # n + 1
    <3>1. j \in 1..n /\ r[j] = q[j]
      BY <1>1, <1>2, <2>3
    <3> QED   BY <1>7, <2>1, <3>1 DEF Rising, n
  <2> QED   BY <2>2, <2>3
<1> QED   BY <1>5, <1>6, <1>7 DEF r

LEMMA IdsTail ==
  ASSUME NEW S, \A x \in S : x.id \in Int, NEW q \in Seq(S), q # <<>>
  PROVE  /\ Head(q) \in S /\ Tail(q) \in Seq(S)
         /\ Ids(q) = Ids(Tail(q)) \cup ({Head(q).id} \ {None})
         /\ Head(q) \in ElementsOf(q) /\ ElementsOf(Tail(q)) \subseteq ElementsOf(q)
         /\ Rising(q) => /\ Rising(Tail(q))
                         /\ Head(q).id # None => \A a \in Ids(Tail(q)) : Head(q).id < a
<1> DEFINE n == Len(q)
           r == Tail(q)
<1>1. /\ n \in Nat /\ n > 0 /\ Len(r) = n - 1 /\ Head(q) = q[1]
      /\ \A i \in 1..n - 1 : r[i] = q[i + 1]
      /\ Head(q) \in S /\ r \in Seq(S)
  BY HeadTailProperties, LenProperties, EmptySeq
<1>2. 1 \in 1..n
  BY <1>1
<1>3. \A i \in 1..n - 1 : i + 1 \in 1..n /\ 1 < i + 1
  BY <1>1
<1>4. \A i \in 1..n : i = 1 \/ (i - 1 \in 1..n - 1 /\ (i - 1) + 1 = i)
  BY <1>1
<1> HIDE DEF n, r
<1>5. \A i \in 1..n : q[i] = Head(q) \/ \E j \in 1..n - 1 : q[i] = r[j]
  BY <1>1, <1>4
<1>6. Head(q) \in ElementsOf(q) /\ ElementsOf(r) \subseteq ElementsOf(q)
  BY <1>1, <1>2, <1>3 DEF ElementsOf, n
<1>7. Ids(q) = Ids(r) \cup ({Head(q).id} \ {None})
  <2>1. Ids(r) \cup ({Head(q).id} \ {None}) \subseteq Ids(q)
    BY <1>1, <1>2, <1>3 DEF Ids, n
  <2>2. Ids(q) \subseteq Ids(r) \cup ({Head(q).id} \ {None})
    <3> SUFFICES ASSUME NEW x \in Ids(q) PROVE x = Head(q).id \/ \E j \in 1..Len(r) : x = r[j].id
      BY DEF Ids
    <3>1. PICK i \in 1..n : x = q[i].id
      BY DEF Ids, n
    <3> QED   BY <1>1, <1>5, <3>1
  <2> QED   BY <2>1, <2>2
<1>8. ASSUME Rising(q)
      PROVE  Rising(r) /\ (Head(q).id # None => \A a \in Ids(r) : Head(q).id < a)
  <2>1. Rising(r)
    <3> SUFFICES ASSUME NEW i \in 1..n - 1, NEW j \in 1..n - 1, i < j, r[i].id # None, r[j].id # None
                 PROVE  r[i].id < r[j].id
      BY <1>1 DEF Rising
    <3>1. i + 1 \in 1..n /\ j + 1 \in 1..n /\ i + 1 < j + 1
      BY <1>3, <1>1
    <3> QED   BY <1>1, <1>8, <3>1 DEF Rising, n
  <2>2. ASSUME Head(q).id # None, NEW a \in Ids(r) PROVE Head(q).id < a
    <3>1. PICK j \in 1..n - 1 : a = r[j].id /\ a # None
      BY <1>1 DEF Ids
    <3>2. a = q[j + 1].id /\ j + 1 \in 1..n /\ 1 < j + 1
      BY <1>1, <1>3, <3>1
    <3> QED   BY <1>1, <1>2, <1>8, <2>2, <3>1, <3>2 DEF Rising, n
  <2> QED   BY <2>1, <2>2
<1> QED   BY <1>1, <1>6, <1>7, <1>8 DEF r

(* A notification, and a request, is sent. *)
LEMMA OrderedSend ==
  ASSUME NEW p \in Seq(Answer), NEW c \in Seq(Answer), NEW q \in Seq(Message), NEW m \in Message,
         NEW n \in Nat, Ordered(p, c, q, n)
  PROVE  /\ m.id = None => /\ Ordered(p, c, Append(q, m), n)
                           /\ UnderWay(p, c, Append(q, m)) = UnderWay(p, c, q)
         /\ m.id = n => /\ Ordered(p, c, Append(q, m), n + 1)
                        /\ UnderWay(p, c, Append(q, m)) = UnderWay(p, c, q) \cup {n}
<1>1. /\ Ids(Append(q, m)) = Ids(q) \cup ({m.id} \ {None})
      /\ Rising(q) /\ (m.id = None \/ \A a \in Ids(q) : a < m.id) => Rising(Append(q, m))
  BY IdsAppend, NoneOfThem
<1>2. Ids(p) \subseteq 0..n - 1 /\ Ids(c) \subseteq 0..n - 1 /\ Ids(q) \subseteq 0..n - 1
  BY DEF Ordered, UnderWay
<1>3. ASSUME m.id = None
      PROVE  Ordered(p, c, Append(q, m), n) /\ UnderWay(p, c, Append(q, m)) = UnderWay(p, c, q)
  <2>1. Ids(Append(q, m)) = Ids(q) /\ (Rising(q) => Rising(Append(q, m)))
    BY <1>1, <1>3
  <2> QED   BY <1>1, <1>3, <2>1 DEF Ordered, UnderWay
<1>4. ASSUME m.id = n
      PROVE  Ordered(p, c, Append(q, m), n + 1) /\ UnderWay(p, c, Append(q, m)) = UnderWay(p, c, q) \cup {n}
  <2>1. Ids(Append(q, m)) = Ids(q) \cup {n}
    BY <1>1, <1>4, BoundsAreNat
  <2>2. Rising(Append(q, m))
    BY <1>1, <1>2, <1>4 DEF Ordered
  <2>3. Earlier(Ids(p), Ids(Append(q, m))) /\ Earlier(Ids(c), Ids(Append(q, m)))
    BY <1>2, <2>1 DEF Earlier, Ordered
  <2>4. UnderWay(p, c, Append(q, m)) = UnderWay(p, c, q) \cup {n}
    BY <2>1 DEF UnderWay
  <2>5. UnderWay(p, c, Append(q, m)) \subseteq 0..(n + 1) - 1
    BY <1>2, <2>4 DEF UnderWay
  <2> QED   BY <2>2, <2>3, <2>4, <2>5 DEF Ordered
<1> QED   BY <1>3, <1>4

(* The server handles a message, with an answer or without.                *)
LEMMA OrderedServe ==
  ASSUME NEW p \in Seq(Answer), NEW c \in Seq(Answer), NEW q \in Seq(Message), q # <<>>,
         NEW n \in Nat, Ordered(p, c, q, n), NEW a \in Answer
  PROVE  /\ Head(q).id = None => /\ Ordered(p, c, Tail(q), n)
                                 /\ UnderWay(p, c, Tail(q)) = UnderWay(p, c, q)
         /\ a.id = Head(q).id => /\ Ordered(p, Append(c, a), Tail(q), n)
                                 /\ UnderWay(p, Append(c, a), Tail(q)) = UnderWay(p, c, q)
<1>1. /\ Ids(q) = Ids(Tail(q)) \cup ({Head(q).id} \ {None})
      /\ Rising(Tail(q))
      /\ Head(q).id # None => \A x \in Ids(Tail(q)) : Head(q).id < x
      /\ Head(q) \in Message
  BY IdsTail, NoneOfThem DEF Ordered
<1>2. /\ Ids(Append(c, a)) = Ids(c) \cup ({a.id} \ {None})
      /\ Rising(c) /\ (a.id = None \/ \A x \in Ids(c) : x < a.id) => Rising(Append(c, a))
  BY IdsAppend, AnswerIds
<1>3. ASSUME Head(q).id = None
      PROVE  Ordered(p, c, Tail(q), n) /\ UnderWay(p, c, Tail(q)) = UnderWay(p, c, q)
  <2>1. Ids(q) = Ids(Tail(q))
    BY <1>1, <1>3
  <2> QED   BY <1>1, <2>1 DEF Ordered, UnderWay
<1>4. ASSUME a.id = Head(q).id
      PROVE  Ordered(p, Append(c, a), Tail(q), n) /\ UnderWay(p, Append(c, a), Tail(q)) = UnderWay(p, c, q)
  <2>1. CASE a.id = None
    <3>1. Ids(q) = Ids(Tail(q)) /\ Ids(Append(c, a)) = Ids(c) /\ (Rising(c) => Rising(Append(c, a)))
      BY <1>1, <1>2, <1>4, <2>1
    <3> QED   BY <1>1, <3>1 DEF Ordered, UnderWay
  <2>2. CASE a.id # None
    <3> DEFINE x == a.id
    <3>1. Ids(q) = Ids(Tail(q)) \cup {x} /\ Ids(Append(c, a)) = Ids(c) \cup {x}
      BY <1>1, <1>2, <1>4, <2>2
    <3>2. \A y \in Ids(Tail(q)) : x < y
      BY <1>1, <1>4, <2>2
    <3>3. (\A y \in Ids(c) : y < x) /\ (\A y \in Ids(p) : y < x)
      BY <3>1 DEF Ordered, Earlier
    <3>4. Rising(Append(c, a))
      BY <1>2, <3>3 DEF Ordered
    <3> HIDE DEF x
    <3>5. Earlier(Ids(p), Ids(Append(c, a)))
      BY <3>1, <3>3 DEF Ordered, Earlier
    <3>6. Earlier(Ids(p), Ids(Tail(q)))
      BY <3>1 DEF Ordered, Earlier
    <3>7. Earlier(Ids(Append(c, a)), Ids(Tail(q)))
      BY <3>1, <3>2 DEF Ordered, Earlier
    <3>8. UnderWay(p, Append(c, a), Tail(q)) = UnderWay(p, c, q)
      BY <3>1 DEF UnderWay
    <3> QED   BY <1>1, <3>4, <3>5, <3>6, <3>7, <3>8 DEF Ordered
  <2> QED   BY <2>1, <2>2
<1> QED   BY <1>3, <1>4

(* The receiver passes an answer on.                                       *)
LEMMA OrderedReceive ==
  ASSUME NEW p \in Seq(Answer), NEW c \in Seq(Answer), NEW q \in Seq(Message), c # <<>>,
         NEW n \in Nat, Ordered(p, c, q, n)
  PROVE  /\ Ordered(Append(p, Head(c)), Tail(c), q, n)
         /\ UnderWay(Append(p, Head(c)), Tail(c), q) = UnderWay(p, c, q)
<1> DEFINE a == Head(c)
           r == Append(p, a)
           s == Tail(c)
<1>1. /\ Ids(c) = Ids(s) \cup ({a.id} \ {None})
      /\ Rising(s)
      /\ a.id # None => \A x \in Ids(s) : a.id < x
      /\ a \in Answer
  BY IdsTail, AnswerIds DEF Ordered
<1> HIDE DEF a
<1>2. /\ Ids(r) = Ids(p) \cup ({a.id} \ {None})
      /\ Rising(p) /\ (a.id = None \/ \A x \in Ids(p) : x < a.id) => Rising(r)
  BY <1>1, IdsAppend, AnswerIds
<1> HIDE DEF r, s
<1>3. CASE a.id = None
  <2>1. Ids(c) = Ids(s) /\ Ids(r) = Ids(p) /\ (Rising(p) => Rising(r))
    BY <1>1, <1>2, <1>3
  <2>2. Ordered(r, s, q, n) /\ UnderWay(r, s, q) = UnderWay(p, c, q)
    BY <1>1, <2>1 DEF Ordered, UnderWay
  <2> QED   BY <2>2 DEF r, s, a
<1>4. CASE a.id # None
  <2> DEFINE x == a.id
  <2>1. Ids(c) = Ids(s) \cup {x} /\ Ids(r) = Ids(p) \cup {x}
    BY <1>1, <1>2, <1>4
  <2>2. \A y \in Ids(s) : x < y
    BY <1>1, <1>4
  <2>3. (\A y \in Ids(p) : y < x) /\ (\A y \in Ids(q) : x < y)
    BY <2>1 DEF Ordered, Earlier
  <2>4. Rising(r)
    BY <1>2, <2>3 DEF Ordered
  <2> HIDE DEF x
  <2>5. Earlier(Ids(r), Ids(s)) /\ Earlier(Ids(r), Ids(q)) /\ Earlier(Ids(s), Ids(q))
    BY <2>1, <2>2, <2>3 DEF Ordered, Earlier
  <2>6. UnderWay(r, s, q) = UnderWay(p, c, q)
    BY <2>1 DEF UnderWay
  <2>7. Ordered(r, s, q, n)
    BY <1>1, <2>4, <2>5, <2>6 DEF Ordered
  <2> QED   BY <2>6, <2>7 DEF r, s, a
<1> QED   BY <1>3, <1>4

(* The main thread takes the first callback: no other is for that request. *)
LEMMA OrderedTake ==
  ASSUME NEW p \in Seq(Answer), NEW c \in Seq(Answer), NEW q \in Seq(Message), p # <<>>,
         NEW n \in Nat, Ordered(p, c, q, n)
  PROVE  /\ Ordered(Tail(p), c, q, n)
         /\ UnderWay(p, c, q) = UnderWay(Tail(p), c, q) \cup ({Head(p).id} \ {None})
         /\ Head(p).id # None => \A x \in UnderWay(Tail(p), c, q) : Head(p).id < x
<1>1. /\ Ids(p) = Ids(Tail(p)) \cup ({Head(p).id} \ {None})
      /\ Rising(Tail(p))
      /\ Head(p).id # None => \A x \in Ids(Tail(p)) : Head(p).id < x
  BY IdsTail, AnswerIds DEF Ordered
<1>2. UnderWay(p, c, q) = UnderWay(Tail(p), c, q) \cup ({Head(p).id} \ {None})
  BY <1>1 DEF UnderWay
<1>3. Ordered(Tail(p), c, q, n)
  <2>1. Ids(Tail(p)) \subseteq Ids(p)
    BY <1>1
  <2>2. UnderWay(Tail(p), c, q) \subseteq 0..n - 1
    BY <1>2 DEF Ordered
  <2>3. Earlier(Ids(Tail(p)), Ids(c)) /\ Earlier(Ids(Tail(p)), Ids(q))
    BY <2>1 DEF Ordered, Earlier
  <2> QED   BY <1>1, <2>2, <2>3 DEF Ordered
<1>4. ASSUME Head(p).id # None, NEW x \in UnderWay(Tail(p), c, q) PROVE Head(p).id < x
  <2>1. Head(p).id \in Ids(p)
    BY <1>1, <1>4
  <2> QED   BY <1>1, <1>4, <2>1 DEF Ordered, Earlier, UnderWay
<1> QED   BY <1>2, <1>3, <1>4

-----------------------------------------------------------------------------
(* What the client may still get is of this opening of the document only   *)
(* with a version that it has had, and with its text if with its version;  *)
(* and what comes for the last request for a highlight has its text.       *)
Answers == ElementsOf(posted) \cup ElementsOf(toClient)
SeenOf(d) == Seen(server[d], toServer, d)
ComesToKnow(d) == {p[2] : p \in SeenOf(d)}
Ends(d) == {t \in Knowledge : Leads(server[d], toServer, t, d)}
Fresh(d, k) ==
  /\ k.tag <= opens[d]
  /\ k.tag = tag[d] /\ tag[d] # 0 =>
       /\ sent[d] # "no" /\ k.version <= version[d]
       /\ k.version = version[d] => k.text = text[d]
AskedLast(d, n) == \E h \in HighlightsOf(d) : h.id = n /\ \A g \in HighlightsOf(d) : g.id <= n
Awaited(d, n, x) == tag[d] # 0 /\ AskedLast(d, n) => x = text[d]

OrderInv ==
  main = "idle" =>
    /\ shutdownId = None
    /\ Ordered(posted, toClient, toServer, nextId)
    /\ \A g, h \in handlers : g.id = h.id => g = h
    /\ \A h \in Highlights :
         /\ h.id \in UnderWay(posted, toClient, toServer)
         /\ \A m \in ElementsOf(toServer) : m.id = h.id => m.doc = h.doc
    /\ state = "initializing" => Highlights = {}
    /\ \A a \in Answers : IF a.method = "reply" THEN a.id # None ELSE a.id = None /\ a.doc \in Docs
CurrentOf(d) ==
  /\ \A t \in Ends(d) : sent[d] = "no" => ~t.open
  /\ \A p \in SeenOf(d) : p[2].open => Fresh(d, p[2]) /\ Awaited(d, p[1], p[2].text)
  /\ \A a \in Answers :
       /\ a.method = "publishDiagnostics" /\ a.doc = d => Fresh(d, a)
       /\ a.method = "reply" /\ a.outcome = "result" => Awaited(d, a.id, a.text)
CurrentInv == main = "idle" => \A d \in Docs : CurrentOf(d)
LastInv == ClientInv /\ OrderInv /\ CurrentInv

(* What is under way, and the numbers of it.                               *)
LEMMA UnderWayTypes ==
  ASSUME ClientInv, OrderInv, main = "idle"
  PROVE  /\ nextId \in Nat /\ nextId \in 1..MaxRequests
         /\ toServer \in Seq(Message) /\ toClient \in Seq(Answer) /\ posted \in Seq(Answer)
         /\ state \in {"initializing", "ready"} /\ server \in [Docs -> Knowledge]
         /\ Ordered(posted, toClient, toServer, nextId) /\ shutdownId = None
         /\ UnderWay(posted, toClient, toServer) \subseteq 0..nextId - 1
         /\ \A m \in ElementsOf(toServer) : m.id # nextId
         /\ \A a \in Answers : a.id # nextId /\ a \in Answer
         /\ \A h \in Highlights : h.id # None /\ h.id # nextId /\ h.id \in Int /\ h.id < nextId
<1>1. /\ nextId \in Nat /\ nextId \in 1..MaxRequests
      /\ toServer \in Seq(Message) /\ toClient \in Seq(Answer) /\ posted \in Seq(Answer)
      /\ state \in {"initializing", "ready"} /\ server \in [Docs -> Knowledge]
  BY BoundsAreNat DEF ClientInv, ConversationInv
<1>2. /\ Ordered(posted, toClient, toServer, nextId) /\ shutdownId = None
      /\ UnderWay(posted, toClient, toServer) \subseteq 0..nextId - 1
  BY DEF OrderInv, Ordered
<1>3. nextId \notin UnderWay(posted, toClient, toServer) /\ nextId # None
  BY <1>1, <1>2 DEF None
<1>4. \A m \in ElementsOf(toServer) : m.id # nextId
  BY <1>3 DEF ElementsOf, Ids, UnderWay
<1>5. \A a \in Answers : a.id # nextId
  BY <1>3 DEF ElementsOf, Ids, UnderWay, Answers
<1>6. \A a \in Answers : a \in Answer
  <2>1. (\A i \in 1..Len(posted) : posted[i] \in Answer) /\ (\A i \in 1..Len(toClient) : toClient[i] \in Answer)
    BY <1>1, LenProperties
  <2> QED   BY <2>1 DEF Answers, ElementsOf
<1>7. \A h \in Highlights : h.id # None /\ h.id # nextId /\ h.id \in Int /\ h.id < nextId
  BY <1>1 DEF ClientInv, TypeOK, Highlights, None
<1> QED   BY <1>1, <1>2, <1>4, <1>5, <1>6, <1>7

(* What the server will know in the end is one of the things that it will  *)
(* have known, and there is one such end only.                             *)
LEMMA EndIsSeen ==
  ASSUME ClientInv, OrderInv, CurrentInv, main = "idle", NEW d \in Docs
  PROVE  /\ \A p \in SeenOf(d) : p[1] # nextId /\ p[2] \in Knowledge
         /\ \E t \in Knowledge :
              /\ Leads(server[d], toServer, t, d) /\ t \in Ends(d) /\ t \in ComesToKnow(d)
              /\ t.open => Fresh(d, t) /\ sent[d] # "no"
              /\ tag[d] # 0 /\ sent[d] # "no" => t.open /\ t.text = text[d] /\ t.version = version[d]
<1>1. toServer \in Seq(Message) /\ \A m \in ElementsOf(toServer) : m.id # nextId
  BY UnderWayTypes
<1>2. PICK t \in Knowledge :
        /\ Leads(server[d], toServer, t, d)
        /\ tag[d] # 0 /\ sent[d] # "no" => t.open /\ t.text = text[d] /\ t.version = version[d]
  BY DEF ClientInv, SyncInv
<1>3. /\ \A p \in SeenOf(d) : p[1] \in {None} \cup Ids(toServer) /\ p[2] \in Knowledge
      /\ \E n \in Int : <<n, t>> \in SeenOf(d)
  BY <1>1, <1>2, SeenProperties DEF SeenOf
<1>4. nextId # None
  BY UnderWayTypes DEF None
<1>5. \A p \in SeenOf(d) : p[1] # nextId /\ p[2] \in Knowledge
  BY <1>1, <1>3, <1>4 DEF Ids, ElementsOf
<1>6. t \in ComesToKnow(d) /\ (t.open => Fresh(d, t) /\ sent[d] # "no")
  <2>1. PICK n \in Int : <<n, t>> \in SeenOf(d)
    BY <1>3
  <2>2. t \in Ends(d)
    BY <1>2 DEF Ends
  <2> QED   BY <2>1, <2>2 DEF CurrentInv, CurrentOf, ComesToKnow
<1> QED   BY <1>2, <1>5, <1>6 DEF Ends

(* A step that leaves a document alone: the server may get to know again   *)
(* what it has known, for a request that is not for its highlight.         *)
LEMMA OthersStayCurrent ==
  ASSUME NEW d \in Docs, CurrentOf(d), HighlightsOf(d)' = HighlightsOf(d),
         tag'[d] = tag[d], sent'[d] = sent[d], opens'[d] = opens[d], text'[d] = text[d], version'[d] = version[d],
         Ends(d)' \subseteq Ends(d), Answers' \subseteq Answers,
         \A p \in SeenOf(d)' :
           p \in SeenOf(d) \/ (p[2] \in ComesToKnow(d) /\ \A h \in HighlightsOf(d) : h.id # p[1])
  PROVE  CurrentOf(d)'
<1>1. \A k : Fresh(d, k)' <=> Fresh(d, k)
  BY DEF Fresh
<1>2. \A n, x : Awaited(d, n, x)' <=> Awaited(d, n, x)
  BY DEF Awaited, AskedLast
<1>3. ASSUME NEW p \in SeenOf(d)', p[2].open PROVE Fresh(d, p[2])' /\ Awaited(d, p[1], p[2].text)'
  <2>1. CASE p \in SeenOf(d)
    BY <1>1, <1>2, <1>3, <2>1 DEF CurrentOf
  <2>2. CASE p \notin SeenOf(d)
    <3>1. PICK o \in SeenOf(d) : o[2] = p[2]
      BY <2>2 DEF ComesToKnow
    <3>2. Fresh(d, p[2])
      BY <1>3, <3>1 DEF CurrentOf
    <3>3. Awaited(d, p[1], p[2].text)
      BY <2>2 DEF Awaited, AskedLast
    <3> QED   BY <1>1, <1>2, <3>2, <3>3
  <2> QED   BY <2>1, <2>2
<1>4. \A t \in Ends(d)' : sent'[d] = "no" => ~t.open
  BY DEF CurrentOf
<1>5. \A a \in Answers' :
        /\ a.method = "publishDiagnostics" /\ a.doc = d => Fresh(d, a)'
        /\ a.method = "reply" /\ a.outcome = "result" => Awaited(d, a.id, a.text)'
  BY <1>1, <1>2 DEF CurrentOf
<1> QED   BY <1>3, <1>4, <1>5 DEF CurrentOf

(* The server handles the first message of the queue.                      *)
LEMMA ServerStaysCurrent ==
  ASSUME LastInv, Server
  PROVE  OrderInv' /\ CurrentInv'
<1> DEFINE m == Head(toServer)
<1>1. UNCHANGED <<state, nextId, shutdownId, handlers, receiver, posted, main, tag, sent, opens, text, version>>
  BY DEF Server, clientVars, documentVars
<1> SUFFICES ASSUME main = "idle" PROVE OrderInv' /\ CurrentInv'
  BY <1>1 DEF OrderInv, CurrentInv
<1>2. /\ toServer \in Seq(Message) /\ toServer # <<>> /\ m \in Message
      /\ toServer' = Tail(toServer) /\ toServer' \in Seq(Message)
      /\ \A d \in Docs : server'[d] = After(server[d], m, d)
      /\ \/ m.id = None /\ toClient' = toClient
         \/ \E a \in Answer : toClient' = Append(toClient, a) /\ a.id = m.id /\ (Replies(m, a) \/ Publishes(m, a))
  BY ServerHandles DEF LastInv, ClientInv
<1>3. /\ toClient \in Seq(Answer) /\ posted \in Seq(Answer) /\ Ordered(posted, toClient, toServer, nextId)
      /\ nextId \in Nat /\ \A h \in Highlights : h.id # None
  BY UnderWayTypes DEF LastInv
<1>4. m \in ElementsOf(toServer) /\ ElementsOf(toServer') \subseteq ElementsOf(toServer)
  BY <1>2, IdsTail, NoneOfThem
<1>5. /\ Highlights' = Highlights /\ \A d \in Docs : HighlightsOf(d)' = HighlightsOf(d)
      /\ \A d \in Docs : \A k : Fresh(d, k)' <=> Fresh(d, k)
      /\ \A d \in Docs : \A n, x : Awaited(d, n, x)' <=> Awaited(d, n, x)
  BY <1>1 DEF Highlights, HighlightsOf, Fresh, Awaited, AskedLast
<1> HIDE DEF m
<1>6. /\ Ordered(posted', toClient', toServer', nextId)
      /\ UnderWay(posted', toClient', toServer') = UnderWay(posted, toClient, toServer)
      /\ \A b \in Answers' : b \in Answers \/ (b.id = m.id /\ (Replies(m, b) \/ Publishes(m, b)))
  <2>1. CASE m.id = None /\ toClient' = toClient
    <3>1. [method |-> "reply", id |-> 0, doc |-> None, outcome |-> "error", version |-> 0, text |-> 0, tag |-> 0]
            \in Answer
      BY NoneOfThem DEF Answer
    <3>2. /\ Ordered(posted, toClient, Tail(toServer), nextId)
          /\ UnderWay(posted, toClient, Tail(toServer)) = UnderWay(posted, toClient, toServer)
      BY <1>2, <1>3, <2>1, <3>1, OrderedServe DEF m
    <3> QED   BY <1>1, <1>2, <2>1, <3>2 DEF Answers
  <2>2. ASSUME NEW a \in Answer, toClient' = Append(toClient, a), a.id = m.id, Replies(m, a) \/ Publishes(m, a)
        PROVE  /\ Ordered(posted', toClient', toServer', nextId)
               /\ UnderWay(posted', toClient', toServer') = UnderWay(posted, toClient, toServer)
               /\ \A b \in Answers' : b \in Answers \/ b = a
    <3>1. /\ Ordered(posted, Append(toClient, a), Tail(toServer), nextId)
          /\ UnderWay(posted, Append(toClient, a), Tail(toServer)) = UnderWay(posted, toClient, toServer)
      BY <1>2, <1>3, <2>2, OrderedServe DEF m
    <3>2. ElementsOf(Append(toClient, a)) = ElementsOf(toClient) \cup {a}
      BY <1>3, IdsAppend, AnswerIds
    <3> QED   BY <1>1, <1>2, <2>2, <3>1, <3>2 DEF Answers
  <2> QED   BY <1>2, <2>1, <2>2
<1>7. OrderInv'
  <2>1. \A b \in Answers' : IF b.method = "reply" THEN b.id # None ELSE b.id = None /\ b.doc \in Docs
    BY <1>6 DEF LastInv, OrderInv, Replies, Publishes
  <2>2. \A h \in Highlights : /\ h.id \in UnderWay(posted', toClient', toServer')
                              /\ \A k \in ElementsOf(toServer') : k.id = h.id => k.doc = h.doc
    BY <1>4, <1>6 DEF LastInv, OrderInv
  <2> QED   BY <1>1, <1>5, <1>6, <2>1, <2>2 DEF LastInv, OrderInv
<1>8. ASSUME NEW d \in Docs PROVE CurrentOf(d)'
  <2>1. PICK t \in Knowledge : Leads(server[d], toServer, t, d) /\ t \in Ends(d)
    BY EndIsSeen DEF LastInv
  <2>2. /\ <<m.id, server'[d]>> \in SeenOf(d)
        /\ SeenOf(d)' \subseteq SeenOf(d) \cup {<<None, server'[d]>>}
        /\ Ends(d)' \subseteq Ends(d)
    <3>1. server'[d] = After(server[d], Head(toServer), d) /\ toServer \in Seq(Message) /\ toServer # <<>>
      BY <1>2 DEF m
    <3>2. Leads(server[d], toServer, t, d)
      BY <2>1
    <3>3. /\ <<Head(toServer).id, server'[d]>> \in Seen(server[d], toServer, d)
          /\ Seen(server'[d], Tail(toServer), d) \subseteq Seen(server[d], toServer, d) \cup {<<None, server'[d]>>}
      BY <3>1, <3>2, SeenTail
    <3>4. \A u : Leads(server'[d], Tail(toServer), u, d) => u = t
      BY <3>1, <3>2, EndTail
    <3> QED   BY <1>2, <2>1, <3>3, <3>4 DEF SeenOf, Ends, m
  <2>3. CurrentOf(d)
    BY DEF LastInv, CurrentInv
  <2>4. \A e \in Ends(d)' : sent'[d] = "no" => ~e.open
    BY <1>1, <2>2, <2>3 DEF CurrentOf
  <2>5. ASSUME NEW p \in SeenOf(d)', p[2].open PROVE Fresh(d, p[2])' /\ Awaited(d, p[1], p[2].text)'
    <3>1. CASE p \in SeenOf(d)
      BY <1>5, <2>3, <2>5, <3>1 DEF CurrentOf
    <3>2. CASE p = <<None, server'[d]>>
      <4>1. Fresh(d, server'[d])
        BY <2>2, <2>3, <2>5, <3>2 DEF CurrentOf
      <4>2. Awaited(d, None, p[2].text)
        BY <1>3 DEF Awaited, AskedLast, HighlightsOf
      <4> QED   BY <1>5, <3>2, <4>1, <4>2
    <3> QED   BY <2>2, <2>5, <3>1, <3>2
  <2>6. ASSUME NEW b \in Answers', b \notin Answers, Publishes(m, b), b.doc = d PROVE Fresh(d, b)
    <3>1. Fresh(d, server'[d])
      BY <2>2, <2>3, <2>6 DEF CurrentOf, Publishes
    <3>2. b.version \in {None, server'[d].version} /\ b.text = server'[d].text /\ b.tag = server'[d].tag
      BY <2>6 DEF Publishes
    <3>3. version[d] \in Nat
      BY BoundsAreNat DEF LastInv, ClientInv, DocumentsInv
    <3> QED   BY <3>1, <3>2, <3>3 DEF Fresh, None
  <2>7. ASSUME NEW b \in Answers', b \notin Answers, b.id = m.id, Replies(m, b), b.outcome = "result"
        PROVE  Awaited(d, b.id, b.text)
    <3>1. CASE m.doc = d
      <4>1. server'[d] = server[d] /\ server[d].open /\ b.text = server[d].text
        BY <1>2, <2>7, <3>1 DEF After, Replies
      <4>2. Awaited(d, m.id, server[d].text)
        BY <2>2, <2>3, <4>1 DEF CurrentOf
      <4> QED   BY <2>7, <4>1, <4>2
    <3>2. CASE m.doc # d
      <4>1. \A h \in HighlightsOf(d) : h \in Highlights /\ h.doc = d
        BY DEF HighlightsOf
      <4>2. \A h \in HighlightsOf(d) : h.id # m.id
        BY <1>4, <3>2, <4>1 DEF LastInv, OrderInv
      <4> QED   BY <2>7, <4>2 DEF Awaited, AskedLast
    <3> QED   BY <3>1, <3>2
  <2>8. ASSUME NEW b \in Answers'
        PROVE  /\ b.method = "publishDiagnostics" /\ b.doc = d => Fresh(d, b)'
               /\ b.method = "reply" /\ b.outcome = "result" => Awaited(d, b.id, b.text)'
    <3>1. CASE b \in Answers
      BY <1>5, <2>3, <3>1 DEF CurrentOf
    <3>2. CASE b \notin Answers
      <4>1. b.id = m.id /\ (Replies(m, b) \/ Publishes(m, b))
        BY <1>6, <3>2
      <4>2. b.method = "publishDiagnostics" => Publishes(m, b)
        BY <4>1 DEF Replies
      <4>3. b.method = "reply" => Replies(m, b)
        BY <4>1 DEF Publishes
      <4> QED   BY <1>5, <2>6, <2>7, <3>2, <4>1, <4>2, <4>3
    <3> QED   BY <3>1, <3>2
  <2> QED   BY <2>4, <2>5, <2>8 DEF CurrentOf
<1> QED   BY <1>7, <1>8 DEF CurrentInv

(* The receiver thread posts an answer.                                    *)
LEMMA ReceiverStaysCurrent ==
  ASSUME LastInv, Receive \/ JoinReceiver
  PROVE  OrderInv' /\ CurrentInv'
<1>1. CASE Receive
  <2> DEFINE a == Head(toClient)
  <2>1. /\ toClient # <<>> /\ toClient' = Tail(toClient)
        /\ UNCHANGED <<state, nextId, shutdownId, handlers, main, tag, sent, opens, text, version, toServer, server>>
        /\ (a.method = "reply" /\ a.id = shutdownId) \/ posted' = Append(posted, a)
    BY <1>1 DEF Receive, clientVars, documentVars
  <2> SUFFICES ASSUME main = "idle" PROVE OrderInv' /\ CurrentInv'
    BY <2>1 DEF OrderInv, CurrentInv
  <2>2. /\ toServer \in Seq(Message) /\ toClient \in Seq(Answer) /\ posted \in Seq(Answer)
        /\ nextId \in Nat /\ Ordered(posted, toClient, toServer, nextId) /\ shutdownId = None
    BY UnderWayTypes DEF LastInv
  <2>3. /\ ElementsOf(Tail(toClient)) \subseteq ElementsOf(toClient) /\ a \in ElementsOf(toClient) /\ a \in Answer
        /\ \A x \in Answer : ElementsOf(Append(posted, x)) = ElementsOf(posted) \cup {x}
    BY <2>1, <2>2, IdsTail, IdsAppend, AnswerIds
  <2> HIDE DEF a
  <2>4. posted' = Append(posted, a)
    BY <2>1, <2>2, <2>3 DEF LastInv, OrderInv, Answers
  <2>5. Answers' \subseteq Answers
    BY <2>1, <2>3, <2>4 DEF Answers
  <2>6. /\ Ordered(Append(posted, a), Tail(toClient), toServer, nextId)
        /\ UnderWay(Append(posted, a), Tail(toClient), toServer) = UnderWay(posted, toClient, toServer)
    BY <2>1, <2>2, OrderedReceive DEF a
  <2>7. Highlights' = Highlights /\ \A d \in Docs : HighlightsOf(d)' = HighlightsOf(d)
    BY <2>1 DEF Highlights, HighlightsOf
  <2>8. OrderInv'
    BY <2>1, <2>4, <2>5, <2>6, <2>7 DEF LastInv, OrderInv
  <2>9. ASSUME NEW d \in Docs PROVE CurrentOf(d)'
    <3>1. CurrentOf(d) /\ SeenOf(d)' = SeenOf(d) /\ Ends(d)' = Ends(d)
      BY <2>1 DEF LastInv, CurrentInv, SeenOf, Ends
    <3> QED   BY <2>1, <2>5, <2>7, <3>1, OthersStayCurrent
  <2> QED   BY <2>8, <2>9 DEF CurrentInv
<1>2. CASE JoinReceiver
  BY <1>2 DEF JoinReceiver, OrderInv, CurrentInv
<1> QED   BY <1>1, <1>2

-----------------------------------------------------------------------------
(* What is sent: the order of the numbers, and what the server will know.  *)
LEMMA OneIsSent ==
  ASSUME ClientInv, OrderInv, main = "idle", NEW m \in Message, toServer' = Append(toServer, m),
         UNCHANGED <<posted, toClient, server>>
  PROVE  /\ ElementsOf(toServer') = ElementsOf(toServer) \cup {m}
         /\ m.id = None => /\ Ordered(posted', toClient', toServer', nextId')  \/ nextId' # nextId
                           /\ UnderWay(posted', toClient', toServer') = UnderWay(posted, toClient, toServer)
         /\ m.id = nextId => /\ Ordered(posted', toClient', toServer', nextId') \/ nextId' # nextId + 1
                             /\ UnderWay(posted', toClient', toServer') = UnderWay(posted, toClient, toServer) \cup {nextId}
         /\ \A d \in Docs, t \in Knowledge : Leads(server[d], toServer, t, d) =>
              /\ \A p \in SeenOf(d)' : p \in SeenOf(d) \/ (p[1] = m.id /\ p[2] = After(t, m, d))
              /\ Ends(d)' \subseteq {After(t, m, d)}
<1>1. /\ toServer \in Seq(Message) /\ toClient \in Seq(Answer) /\ posted \in Seq(Answer)
      /\ nextId \in Nat /\ Ordered(posted, toClient, toServer, nextId)
  BY UnderWayTypes
<1>2. toServer' = Append(toServer, m) /\ posted' = posted /\ toClient' = toClient /\ server' = server
  OBVIOUS
<1>3. ElementsOf(toServer') = ElementsOf(toServer) \cup {m}
  BY <1>1, <1>2, IdsAppend, NoneOfThem
<1>4. m.id = None => /\ Ordered(posted, toClient, toServer', nextId)
                     /\ UnderWay(posted, toClient, toServer') = UnderWay(posted, toClient, toServer)
  BY <1>1, <1>2, OrderedSend
<1>5. m.id = nextId =>
        /\ Ordered(posted, toClient, toServer', nextId + 1)
        /\ UnderWay(posted, toClient, toServer') = UnderWay(posted, toClient, toServer) \cup {nextId}
  BY <1>1, <1>2, OrderedSend
<1>6. ASSUME NEW d \in Docs, NEW t \in Knowledge, Leads(server[d], toServer, t, d)
      PROVE  /\ \A p \in SeenOf(d)' : p \in SeenOf(d) \/ (p[1] = m.id /\ p[2] = After(t, m, d))
             /\ Ends(d)' \subseteq {After(t, m, d)}
  <2>1. Seen(server[d], Append(toServer, m), d) \subseteq Seen(server[d], toServer, d) \cup {<<m.id, After(t, m, d)>>}
    BY <1>1, <1>6, SeenAppend
  <2>2. \A u : Leads(server[d], Append(toServer, m), u, d) => u = After(t, m, d)
    BY <1>1, <1>6, EndAppend
  <2>3. \A p \in SeenOf(d)' : p \in SeenOf(d) \/ (p[1] = m.id /\ p[2] = After(t, m, d))
    BY <1>2, <2>1 DEF SeenOf
  <2> QED   BY <1>2, <2>2, <2>3 DEF Ends
<1> QED   BY <1>3, <1>4, <1>5, <1>6

LEMMA TwoAreSeen ==
  ASSUME NEW m \in Message, m.id = None, NEW r \in Message, toServer \in Seq(Message),
         toServer' = Append(Append(toServer, m), r), server' = server,
         NEW d \in Docs, NEW t \in Knowledge, Leads(server[d], toServer, t, d)
  PROVE  /\ \A p \in SeenOf(d)' : \/ p \in SeenOf(d)
                                  \/ p[1] = None /\ p[2] = After(t, m, d)
                                  \/ p[1] = r.id /\ p[2] = After(After(t, m, d), r, d)
         /\ Ends(d)' \subseteq {After(After(t, m, d), r, d)}
<1> DEFINE q == Append(toServer, m)
           v == After(t, m, d)
<1>1. toServer' = Append(q, r) /\ q \in Seq(Message)
  BY AppendProperties
<1>2. /\ Leads(server[d], q, v, d)
      /\ \A p \in Seen(server[d], q, d) : p \in SeenOf(d) \/ (p[1] = None /\ p[2] = v)
  <2>1. Leads(server[d], q, v, d)
    BY LeadsAppend
  <2>2. Seen(server[d], Append(toServer, m), d) \subseteq Seen(server[d], toServer, d) \cup {<<m.id, v>>}
    BY SeenAppend
  <2> QED   BY <2>1, <2>2 DEF SeenOf
<1> HIDE DEF q, v
<1>3. Seen(server[d], Append(q, r), d) \subseteq Seen(server[d], q, d) \cup {<<r.id, After(v, r, d)>>}
  BY <1>1, <1>2, SeenAppend
<1>4. \A u : Leads(server[d], Append(q, r), u, d) => u = After(v, r, d)
  BY <1>1, <1>2, EndAppend
<1>5. \A p \in SeenOf(d)' : p \in SeenOf(d) \/ (p[1] = None /\ p[2] = v) \/ (p[1] = r.id /\ p[2] = After(v, r, d))
  BY <1>1, <1>2, <1>3 DEF SeenOf
<1>6. Ends(d)' \subseteq {After(v, r, d)}
  BY <1>1, <1>4 DEF Ends
<1> QED   BY <1>5, <1>6 DEF v

LEMMA TwoAreSent ==
  ASSUME ClientInv, OrderInv, main = "idle", NEW m \in Message, m.id = None, NEW r \in Message,
         toServer' = Append(Append(toServer, m), r), posted' = posted, toClient' = toClient, server' = server
  PROVE  /\ ElementsOf(toServer') = ElementsOf(toServer) \cup {m, r}
         /\ r.id = None => /\ Ordered(posted', toClient', toServer', nextId')  \/ nextId' # nextId
                           /\ UnderWay(posted', toClient', toServer') = UnderWay(posted, toClient, toServer)
         /\ r.id = nextId => /\ Ordered(posted', toClient', toServer', nextId') \/ nextId' # nextId + 1
                             /\ UnderWay(posted', toClient', toServer') = UnderWay(posted, toClient, toServer) \cup {nextId}
         /\ \A d \in Docs, t \in Knowledge : Leads(server[d], toServer, t, d) =>
              /\ \A p \in SeenOf(d)' : \/ p \in SeenOf(d)
                                       \/ p[1] = None /\ p[2] = After(t, m, d)
                                       \/ p[1] = r.id /\ p[2] = After(After(t, m, d), r, d)
              /\ Ends(d)' \subseteq {After(After(t, m, d), r, d)}
<1> DEFINE q == Append(toServer, m)
<1>1. /\ toServer \in Seq(Message) /\ toClient \in Seq(Answer) /\ posted \in Seq(Answer)
      /\ nextId \in Nat /\ Ordered(posted, toClient, toServer, nextId)
  BY UnderWayTypes
<1>2. /\ toServer' = Append(q, r) /\ q \in Seq(Message)
      /\ posted' = posted /\ toClient' = toClient /\ server' = server
  BY <1>1, AppendProperties
<1>3. ElementsOf(q) = ElementsOf(toServer) \cup {m}
  <2>1. \A k \in Message : k.id \in Int
    BY NoneOfThem
  <2> QED   BY <1>1, <2>1, IdsAppend
<1>4. /\ Ordered(posted, toClient, q, nextId)
      /\ UnderWay(posted, toClient, q) = UnderWay(posted, toClient, toServer)
  BY <1>1, OrderedSend
<1> HIDE DEF q
<1>5. ElementsOf(toServer') = ElementsOf(toServer) \cup {m, r}
  <2>1. ElementsOf(Append(q, r)) = ElementsOf(q) \cup {r}
    BY <1>2, IdsAppend, NoneOfThem
  <2> QED   BY <1>2, <1>3, <2>1
<1>6. r.id = None => /\ Ordered(posted, toClient, toServer', nextId)
                     /\ UnderWay(posted, toClient, toServer') = UnderWay(posted, toClient, toServer)
  BY <1>1, <1>2, <1>4, OrderedSend
<1>7. r.id = nextId =>
        /\ Ordered(posted, toClient, toServer', nextId + 1)
        /\ UnderWay(posted, toClient, toServer') = UnderWay(posted, toClient, toServer) \cup {nextId}
  BY <1>1, <1>2, <1>4, OrderedSend
<1>8. ASSUME NEW d \in Docs, NEW t \in Knowledge, Leads(server[d], toServer, t, d)
      PROVE  /\ \A p \in SeenOf(d)' : \/ p \in SeenOf(d)
                                      \/ p[1] = None /\ p[2] = After(t, m, d)
                                      \/ p[1] = r.id /\ p[2] = After(After(t, m, d), r, d)
             /\ Ends(d)' \subseteq {After(After(t, m, d), r, d)}
  BY <1>1, <1>8, TwoAreSeen
<1> QED   BY <1>5, <1>6, <1>7, <1>8

(* A request with its handler, and steps without: the order is kept.       *)
LEMMA RequestKeepsOrder ==
  ASSUME ClientInv, OrderInv, main = "idle", state = "ready",
         UNCHANGED <<main, state, shutdownId, posted, toClient>>,
         NEW h, handlers' = handlers \cup {h}, h.id = nextId, h.kind \in {"highlight", "hover"},
         Ordered(posted', toClient', toServer', nextId'),
         UnderWay(posted', toClient', toServer') = UnderWay(posted, toClient, toServer) \cup {nextId},
         \A m \in ElementsOf(toServer') :
           m \in ElementsOf(toServer) \/ m.id = None \/ (m.id = nextId /\ m.doc = h.doc)
  PROVE  OrderInv'
<1>1. /\ \A m \in ElementsOf(toServer) : m.id # nextId
      /\ \A g \in Highlights : g.id # None /\ g.id # nextId
      /\ nextId # None
  BY UnderWayTypes DEF None
<1>2. \A g \in handlers : g.id # nextId
  BY DEF ClientInv, TypeOK
<1>3. Highlights' \subseteq Highlights \cup {h} /\ Answers' = Answers
  BY DEF Highlights, Answers
<1>4. \A f, g \in handlers' : f.id = g.id => f = g
  BY <1>2 DEF OrderInv
<1>5. \A g \in Highlights' : /\ g.id \in UnderWay(posted', toClient', toServer')
                             /\ \A m \in ElementsOf(toServer') : m.id = g.id => m.doc = g.doc
  BY <1>1, <1>3 DEF OrderInv
<1> QED   BY <1>3, <1>4, <1>5 DEF OrderInv

LEMMA OrderIsKept ==
  ASSUME ClientInv, OrderInv, main = "idle", UNCHANGED <<main, shutdownId>>,
         Ordered(posted', toClient', toServer', nextId'),
         \A g, h \in handlers' : g.id = h.id => g = h,
         Highlights' \subseteq Highlights,
         \A h \in Highlights' : h.id \in UnderWay(posted', toClient', toServer'),
         \A m \in ElementsOf(toServer') : m \in ElementsOf(toServer) \/ m.id = None,
         Answers' \subseteq Answers, state' = "initializing" => state = "initializing"
  PROVE  OrderInv'
<1>1. \A g \in Highlights : g.id # None
  BY UnderWayTypes
<1>2. \A h \in Highlights' : \A m \in ElementsOf(toServer') : m.id = h.id => m.doc = h.doc
  BY <1>1 DEF OrderInv
<1> QED   BY <1>2 DEF OrderInv

-----------------------------------------------------------------------------
(* What is under way stays current when documents are opened, edited and   *)
(* closed.                                                                 *)
LEMMA EndAfter ==
  ASSUME ClientInv', main' = "idle", NEW d \in Docs, NEW x, Ends(d)' \subseteq {x}
  PROVE  /\ tag'[d] # 0 /\ sent'[d] # "no" => x.open /\ x.text = text'[d] /\ x.version = version'[d]
         /\ x \in Knowledge
<1>1. PICK u \in Knowledge :
        /\ Leads(server'[d], toServer', u, d)
        /\ tag'[d] # 0 /\ sent'[d] # "no" => u.open /\ u.text = text'[d] /\ u.version = version'[d]
  BY DEF ClientInv, SyncInv
<1>2. u \in Ends(d)'
  BY <1>1 DEF Ends
<1> QED   BY <1>1, <1>2

(* A document about which nothing is sent.                                 *)
LEMMA NothingIsSentAbout ==
  ASSUME LastInv, main = "idle", NEW e \in Docs, HighlightsOf(e)' = HighlightsOf(e), Answers' \subseteq Answers,
         tag'[e] = tag[e], sent'[e] = sent[e], opens'[e] = opens[e], text'[e] = text[e], version'[e] = version[e],
         \A t \in Knowledge : Leads(server[e], toServer, t, e) =>
           /\ \A p \in SeenOf(e)' : p \in SeenOf(e) \/ (p[1] \in {None, nextId} /\ p[2] = t)
           /\ Ends(e)' \subseteq {t}
  PROVE  CurrentOf(e)'
<1>1. PICK t \in Knowledge : Leads(server[e], toServer, t, e) /\ t \in Ends(e) /\ t \in ComesToKnow(e)
  BY EndIsSeen DEF LastInv
<1>2. \A g \in HighlightsOf(e) : g.id \notin {None, nextId}
  BY UnderWayTypes DEF LastInv, HighlightsOf
<1>3. /\ \A p \in SeenOf(e)' : p \in SeenOf(e) \/ (p[1] \in {None, nextId} /\ p[2] = t)
      /\ Ends(e)' \subseteq {t}
  BY <1>1
<1>4. CurrentOf(e)
  BY DEF LastInv, CurrentInv
<1> QED   BY <1>1, <1>2, <1>3, <1>4, OthersStayCurrent

(* A new request for the highlight is the last one, and gets what the      *)
(* server will know in the end.                                            *)
LEMMA RequestStaysCurrent ==
  ASSUME LastInv, ClientInv', main = "idle", UNCHANGED <<main, posted, toClient>>, NEW d \in Docs,
         NEW h, h.id = nextId, h \in HighlightsOf(d)', HighlightsOf(d)' \subseteq HighlightsOf(d) \cup {h},
         \A k : k.tag \in Nat /\ k.version \in Int /\ Fresh(d, k) => Fresh(d, k)',
         NEW x, Ends(d)' \subseteq {x}, \A p \in SeenOf(d)' : p \in SeenOf(d) \/ p[2] = x,
         x.open => Fresh(d, x)' /\ sent'[d] # "no"
  PROVE  CurrentOf(d)'
<1>1. /\ nextId \in Nat /\ \A g \in HighlightsOf(d) : g.id \in Int /\ g.id < nextId
      /\ \A a \in Answers : a.id # nextId /\ a \in Answer
      /\ \A p \in SeenOf(d) : p[1] # nextId /\ p[2] \in Knowledge
  BY UnderWayTypes, EndIsSeen DEF LastInv, HighlightsOf
<1>2. \A n : n # nextId => ~AskedLast(d, n)'
  <2> SUFFICES ASSUME NEW n, n # nextId, NEW g \in HighlightsOf(d)', g.id = n, h.id <= n PROVE FALSE
    BY DEF AskedLast
  <2> QED   BY <1>1
<1>3. CurrentOf(d)
  BY DEF LastInv, CurrentInv
<1>4. \A t \in Ends(d)' : sent'[d] = "no" => ~t.open
  OBVIOUS
<1>5. ASSUME NEW p \in SeenOf(d)', p[2].open PROVE Fresh(d, p[2])' /\ Awaited(d, p[1], p[2].text)'
  <2>1. CASE p \in SeenOf(d)
    <3>1. p[1] # nextId /\ p[2].tag \in Nat /\ p[2].version \in Int /\ Fresh(d, p[2])
      BY <1>1, <1>3, <1>5, <2>1, BoundsAreNat DEF CurrentOf, Knowledge
    <3>2. Awaited(d, p[1], p[2].text)'
      BY <1>2, <3>1 DEF Awaited
    <3> QED   BY <3>1, <3>2
  <2>2. CASE p[2] = x
    <3>1. tag'[d] # 0 /\ sent'[d] # "no" => x.text = text'[d]
      BY EndAfter
    <3> QED   BY <1>5, <2>2, <3>1 DEF Awaited
  <2> QED   BY <2>1, <2>2
<1>6. ASSUME NEW a \in Answers'
      PROVE  /\ a.method = "publishDiagnostics" /\ a.doc = d => Fresh(d, a)'
             /\ a.method = "reply" /\ a.outcome = "result" => Awaited(d, a.id, a.text)'
  <2>1. a \in Answers /\ a.id # nextId /\ a.tag \in Nat /\ a.version \in Int
    BY <1>1, BoundsAreNat DEF Answers, Answer
  <2>2. Awaited(d, a.id, a.text)'
    BY <1>2, <2>1 DEF Awaited
  <2> QED   BY <1>3, <2>1, <2>2 DEF CurrentOf
<1> QED   BY <1>4, <1>5, <1>6 DEF CurrentOf

LEMMA OpenStaysCurrent ==
  ASSUME LastInv, ClientInv', NEW d \in Docs, Open(d)
  PROVE  OrderInv' /\ CurrentInv'
<1>1. /\ main = "idle" /\ tag[d] = 0
      /\ opens' = [opens EXCEPT ![d] = @ + 1]
      /\ tag' = [tag EXCEPT ![d] = opens[d] + 1]
      /\ sent' = [sent EXCEPT ![d] = IF state = "ready" THEN "asked" ELSE "no"]
      /\ version' = [version EXCEPT ![d] = 0]
      /\ UNCHANGED <<main, posted, text, toClient, server>>
  BY DEF Open
<1>2. /\ TypeOK /\ DocumentsInv /\ HandlersInv
      /\ nextId \in Nat /\ state \in {"initializing", "ready"} /\ shutdownId = None
      /\ state = "initializing" => sent[d] = "no" /\ Highlights = {}
  BY <1>1, UnderWayTypes DEF LastInv, ClientInv, ConversationInv, OrderInv
<1>3. /\ opens[d] \in Nat /\ opens'[d] = opens[d] + 1 /\ tag'[d] = opens[d] + 1
      /\ sent'[d] = (IF state = "ready" THEN "asked" ELSE "no") /\ version'[d] = 0 /\ text'[d] \in Nat
      /\ \A e \in Docs \ {d} : /\ tag'[e] = tag[e] /\ sent'[e] = sent[e] /\ opens'[e] = opens[e]
                               /\ version'[e] = version[e] /\ text'[e] = text[e]
  BY <1>1, <1>2, BoundsAreNat DEF TypeOK, DocumentsInv
<1>4. \A g \in Highlights : g.doc = d => g.tag # tag'[d]
  BY <1>2, <1>3 DEF HandlersInv, Highlights, Handlers
<1>5. \A k : k.tag \in Nat /\ Fresh(d, k) => Fresh(d, k)'
  BY <1>3 DEF Fresh
<1>6. CurrentInv /\ OrderInv /\ ClientInv /\ main' = "idle"
  BY <1>1 DEF LastInv
<1>7. CASE state # "ready"
  <2>1. UNCHANGED <<state, nextId, shutdownId, handlers, toServer>>
    BY <1>7 DEF Open, clientVars
  <2>2. /\ Highlights' = {} /\ Answers' = Answers
        /\ \A e \in Docs : HighlightsOf(e)' = {} /\ HighlightsOf(e) = {} /\ SeenOf(e)' = SeenOf(e) /\ Ends(e)' = Ends(e)
    BY <1>1, <1>2, <1>7, <2>1 DEF Highlights, HighlightsOf, SeenOf, Ends, Answers
  <2>3. OrderInv'
    BY <1>1, <1>6, <2>1, <2>2 DEF OrderInv
  <2>4. ASSUME NEW e \in Docs PROVE CurrentOf(e)'
    <3>1. CASE e # d
      BY <1>3, <1>6, <1>1, <2>2, <3>1, OthersStayCurrent DEF CurrentInv
    <3>2. CASE e = d
      <4>1. CurrentOf(d) /\ \A n, x : Awaited(d, n, x)'
        BY <1>1, <1>6, <2>2 DEF CurrentInv, Awaited, AskedLast
      <4>2. /\ \A p \in SeenOf(d) : p[2].tag \in Nat
            /\ \A a \in Answers : a.tag \in Nat
        <5>1. \A p \in SeenOf(d) : p[2] \in Knowledge
          BY <1>1, <1>6, EndIsSeen
        <5>2. \A a \in Answers : a \in Answer
          BY <1>1, <1>6, UnderWayTypes
        <5> QED   BY <5>1, <5>2, BoundsAreNat DEF Knowledge, Answer
      <4>3. \A p \in SeenOf(d)' : p[2].open => Fresh(d, p[2])' /\ Awaited(d, p[1], p[2].text)'
        BY <1>5, <2>2, <4>1, <4>2 DEF CurrentOf
      <4>4. \A a \in Answers' : /\ a.method = "publishDiagnostics" /\ a.doc = d => Fresh(d, a)'
                                /\ Awaited(d, a.id, a.text)'
        BY <1>5, <2>2, <4>1, <4>2 DEF CurrentOf
      <4>5. \A t \in Ends(d)' : ~t.open
        BY <1>2, <1>7, <2>2, <4>1 DEF CurrentOf
      <4> QED   BY <3>2, <4>3, <4>4, <4>5 DEF CurrentOf
    <3> QED   BY <3>1, <3>2
  <2> QED   BY <2>3, <2>4 DEF CurrentInv
<1>8. CASE state = "ready"
  <2> DEFINE m == Notification("didOpen", d)
             r == Request("semanticTokens", nextId, d)
             h == Handler(nextId, "highlight", d)
  <2>1. /\ nextId' = nextId + 1 /\ handlers' = handlers \cup {h}
        /\ toServer' = toServer \o (<<m>> \o <<r>>)
        /\ UNCHANGED <<state, shutdownId>>
    BY <1>8 DEF Open, SendRequest, Send
  <2>2. m \in Message /\ r \in Message
    <3>1. nextId \in Int /\ version'[d] = 0 /\ text'[d] \in 0..MaxText /\ tag'[d] \in 0..MaxOpens
      BY <1>1, <1>2, <1>3 DEF DocumentsInv, LastInv, ClientInv, TypeOK
    <3> QED   BY <3>1, NoneOfThem, NotificationIsMessage DEF Request
  <2>3. /\ m.doc = d /\ m.id = None /\ m.method = "didOpen" /\ m.version = version'[d] /\ m.text = text'[d]
        /\ m.tag = tag'[d] /\ r.doc = d /\ r.id = nextId /\ nextId # None
    BY <1>2 DEF Notification, Request, None
  <2>4. h.id = nextId /\ h.kind = "highlight" /\ h.doc = d /\ h.tag = tag'[d]
    BY DEF Handler
  <2>5. PICK x : x = Opened(m)
    OBVIOUS
  <2>6. x.open /\ x.version = version'[d] /\ x.text = text'[d] /\ x.tag = tag'[d]
    BY <2>3, <2>5 DEF Opened
  <2>7. \A t, e : After(After(t, m, e), r, e) = (IF e = d THEN x ELSE t) /\ After(t, m, e) = (IF e = d THEN x ELSE t)
    BY <2>3, <2>5 DEF After, Understood
  <2> HIDE DEF m, r, h
  <2>8. toServer' = Append(Append(toServer, m), r)
    BY <1>1, <1>6, <2>1, <2>2, UnderWayTypes, TwoAreAppended
  <2>9. /\ ElementsOf(toServer') = ElementsOf(toServer) \cup {m, r}
        /\ Ordered(posted', toClient', toServer', nextId')
        /\ UnderWay(posted', toClient', toServer') = UnderWay(posted, toClient, toServer) \cup {nextId}
        /\ \A e \in Docs, t \in Knowledge : Leads(server[e], toServer, t, e) =>
             /\ \A p \in SeenOf(e)' : p \in SeenOf(e) \/ (p[1] \in {None, nextId} /\ p[2] = IF e = d THEN x ELSE t)
             /\ Ends(e)' \subseteq {IF e = d THEN x ELSE t}
    <3>1. /\ ClientInv /\ OrderInv /\ main = "idle" /\ UNCHANGED <<posted, toClient, server>>
          /\ m \in Message /\ m.id = None /\ r \in Message
      BY <1>1, <1>6, <2>2, <2>3
    <3>2. /\ ElementsOf(toServer') = ElementsOf(toServer) \cup {m, r}
          /\ Ordered(posted', toClient', toServer', nextId')
          /\ UnderWay(posted', toClient', toServer') = UnderWay(posted, toClient, toServer) \cup {nextId}
      BY <2>1, <2>2, <2>3, <2>8, <3>1, TwoAreSent
    <3>3. \A e \in Docs, t \in Knowledge : Leads(server[e], toServer, t, e) =>
            /\ \A p \in SeenOf(e)' : \/ p \in SeenOf(e)
                                     \/ p[1] = None /\ p[2] = After(t, m, e)
                                     \/ p[1] = r.id /\ p[2] = After(After(t, m, e), r, e)
            /\ Ends(e)' \subseteq {After(After(t, m, e), r, e)}
      BY <1>1, <1>6, <2>8, <3>1, UnderWayTypes, TwoAreSeen
    <3>4. ASSUME NEW e \in Docs, NEW t \in Knowledge, Leads(server[e], toServer, t, e)
          PROVE  /\ \A p \in SeenOf(e)' : p \in SeenOf(e) \/ (p[1] \in {None, nextId} /\ p[2] = IF e = d THEN x ELSE t)
                 /\ Ends(e)' \subseteq {IF e = d THEN x ELSE t}
      <4>1. After(After(t, m, e), r, e) = (IF e = d THEN x ELSE t) /\ After(t, m, e) = (IF e = d THEN x ELSE t)
        BY <2>7
      <4> QED   BY <2>3, <3>3, <3>4, <4>1
    <3> QED   BY <3>2, <3>4
  <2>10. OrderInv'
    <3>1. \A k \in ElementsOf(toServer') : k \in ElementsOf(toServer) \/ k.id = None \/ (k.id = nextId /\ k.doc = h.doc)
      BY <2>3, <2>4, <2>9
    <3> QED   BY <1>1, <1>6, <1>8, <2>1, <2>4, <2>9, <3>1, RequestKeepsOrder
  <2>11. ASSUME NEW e \in Docs \ {d} PROVE CurrentOf(e)'
    <3>1. HighlightsOf(e)' = HighlightsOf(e) /\ Answers' = Answers
      BY <1>1, <1>3, <2>1, <2>4 DEF HighlightsOf, Highlights, Answers
    <3>2. \A t \in Knowledge : Leads(server[e], toServer, t, e) =>
            /\ \A p \in SeenOf(e)' : p \in SeenOf(e) \/ (p[1] \in {None, nextId} /\ p[2] = t)
            /\ Ends(e)' \subseteq {t}
      BY <2>9
    <3> QED   BY <1>1, <1>3, <3>1, <3>2, NothingIsSentAbout
  <2>12. CurrentOf(d)'
    <3>1. h \in HighlightsOf(d)' /\ HighlightsOf(d)' \subseteq HighlightsOf(d) \cup {h}
      BY <1>4, <2>1, <2>4 DEF HighlightsOf, Highlights
    <3>2. PICK t \in Knowledge : Leads(server[d], toServer, t, d)
      BY <1>1, <1>6, EndIsSeen
    <3>3. /\ \A p \in SeenOf(d)' : p \in SeenOf(d) \/ p[2] = x
          /\ Ends(d)' \subseteq {x}
      BY <2>9, <3>2
    <3>4. Fresh(d, x)' /\ sent'[d] # "no"
      BY <1>3, <1>8, <2>6 DEF Fresh
    <3> QED   BY <1>1, <1>5, <1>6, <2>4, <3>1, <3>3, <3>4, RequestStaysCurrent
  <2> QED   BY <1>6, <2>10, <2>11, <2>12 DEF CurrentInv
<1> QED   BY <1>7, <1>8

LEMMA EditStaysCurrent ==
  ASSUME LastInv, ClientInv', NEW d \in Docs, NEW n \in 1..MaxChanges, Edit(d, n)
  PROVE  OrderInv' /\ CurrentInv'
<1> DEFINE made == [i \in 1..n |-> text[d] + i]
<1>1. /\ main = "idle" /\ tag[d] # 0 /\ text[d] + n <= MaxText
      /\ text' = [text EXCEPT ![d] = @ + n]
      /\ UNCHANGED <<main, posted, tag, opens, toClient, server>>
  BY DEF Edit
<1>2. /\ TypeOK /\ DocumentsInv /\ HandlersInv /\ DocumentsInv'
      /\ nextId \in Nat /\ state \in {"initializing", "ready"} /\ shutdownId = None
      /\ state = "initializing" => (\A e \in Docs : sent[e] = "no") /\ Highlights = {}
  BY <1>1, UnderWayTypes DEF LastInv, ClientInv, ConversationInv, OrderInv
<1>3. CurrentInv /\ OrderInv /\ ClientInv /\ main' = "idle"
  BY <1>1 DEF LastInv
<1>4. \A e \in Docs \ {d} : text'[e] = text[e]
  BY <1>1, <1>2 DEF DocumentsInv
<1>5. made \in Seq(1..MaxText)
  <2>1. text[d] \in Nat /\ n \in Nat
    BY <1>2, BoundsAreNat DEF DocumentsInv
  <2>2. \A i \in 1..n : text[d] + i \in 1..MaxText
    BY <1>1, <2>1, BoundsAreNat
  <2> QED   BY <2>1, <2>2
<1> HIDE DEF made
<1>6. CASE state # "ready"
  <2>1. UNCHANGED <<state, nextId, shutdownId, handlers, version, sent, toServer>>
    BY <1>6 DEF Edit, clientVars
  <2>2. /\ Highlights' = {} /\ Answers' = Answers
        /\ \A e \in Docs : HighlightsOf(e)' = {} /\ SeenOf(e)' = SeenOf(e) /\ Ends(e)' = Ends(e)
    BY <1>1, <1>2, <1>6, <2>1 DEF Highlights, HighlightsOf, SeenOf, Ends, Answers
  <2>3. OrderInv'
    BY <1>1, <1>3, <2>1, <2>2 DEF OrderInv
  <2>4. ASSUME NEW e \in Docs PROVE CurrentOf(e)'
    <3>1. /\ CurrentOf(e) /\ \A m, x : Awaited(e, m, x)'
          /\ \A k : Fresh(e, k) => Fresh(e, k)'
      BY <1>1, <1>2, <1>3, <1>6, <2>1, <2>2 DEF CurrentInv, Awaited, AskedLast, Fresh
    <3> QED   BY <2>1, <2>2, <3>1 DEF CurrentOf
  <2> QED   BY <2>3, <2>4 DEF CurrentInv
<1>7. CASE state = "ready"
  <2> DEFINE m == DidChange(d, made)
             r == Request("semanticTokens", nextId, d)
             h == Handler(nextId, "highlight", d)
  <2>1. /\ version[d] + opens[d] <= MaxVersion
        /\ version' = [version EXCEPT ![d] = @ + 1]
        /\ sent' = [sent EXCEPT ![d] = IF @ = "no" THEN "no" ELSE "asked"]
    BY <1>7 DEF Edit
  <2>2. /\ nextId' = nextId + 1 /\ handlers' = handlers \cup {h}
        /\ toServer' = toServer \o (<<m>> \o <<r>>)
        /\ UNCHANGED <<state, shutdownId>>
    BY <1>7 DEF Edit, SendRequest, Send, made
  <2>3. /\ version[d] \in Nat /\ version'[d] = version[d] + 1
        /\ sent'[d] = "no" <=> sent[d] = "no"
        /\ \A e \in Docs \ {d} : sent'[e] = sent[e] /\ version'[e] = version[e]
    BY <1>2, <2>1, BoundsAreNat DEF TypeOK, DocumentsInv
  <2>4. m \in Message /\ r \in Message
    <3>1. nextId \in Int /\ version'[d] \in 0..MaxVersion /\ text'[d] \in 0..MaxText /\ tag'[d] \in 0..MaxOpens
      BY <1>1, <1>2 DEF DocumentsInv, TypeOK
    <3> QED   BY <1>5, <3>1, NotificationIsMessage DEF Request, DidChange
  <2>5. /\ m.doc = d /\ m.id = None /\ m.method = "didChange"
        /\ r.doc = d /\ r.id = nextId /\ nextId # None
    BY <1>2 DEF Notification, Request, DidChange, None
  <2>6. h.id = nextId /\ h.kind = "highlight" /\ h.doc = d /\ h.tag = tag'[d]
    BY DEF Handler
  <2>7. \A t : Understood(t, m) = (IF t.open THEN Changed(t, m) ELSE Closed)
    BY <2>5 DEF Understood
  <2>8. \A t, e : /\ After(After(t, m, e), r, e) = (IF e = d THEN Understood(t, m) ELSE t)
                  /\ After(t, m, e) = (IF e = d THEN Understood(t, m) ELSE t)
    BY <2>5 DEF After
  <2> HIDE DEF m, r, h
  <2>9. toServer' = Append(Append(toServer, m), r)
    BY <1>1, <1>3, <2>2, <2>4, UnderWayTypes, TwoAreAppended
  <2>10. /\ ElementsOf(toServer') = ElementsOf(toServer) \cup {m, r}
         /\ Ordered(posted', toClient', toServer', nextId')
         /\ UnderWay(posted', toClient', toServer') = UnderWay(posted, toClient, toServer) \cup {nextId}
         /\ \A e \in Docs, t \in Knowledge : Leads(server[e], toServer, t, e) =>
              /\ \A p \in SeenOf(e)' :
                   p \in SeenOf(e) \/ (p[1] \in {None, nextId} /\ p[2] = IF e = d THEN Understood(t, m) ELSE t)
              /\ Ends(e)' \subseteq {IF e = d THEN Understood(t, m) ELSE t}
    BY <1>1, <1>3, <2>2, <2>4, <2>5, <2>8, <2>9, TwoAreSent
  <2>11. OrderInv'
    BY <1>1, <1>3, <1>7, <2>2, <2>5, <2>6, <2>10, RequestKeepsOrder
  <2>12. ASSUME NEW e \in Docs \ {d} PROVE CurrentOf(e)'
    <3>1. HighlightsOf(e)' = HighlightsOf(e) /\ Answers' = Answers /\ tag'[e] = tag[e] /\ opens'[e] = opens[e]
      BY <1>1, <2>2, <2>6 DEF HighlightsOf, Highlights, Answers
    <3>2. \A t \in Knowledge : Leads(server[e], toServer, t, e) =>
            /\ \A p \in SeenOf(e)' : p \in SeenOf(e) \/ (p[1] \in {None, nextId} /\ p[2] = t)
            /\ Ends(e)' \subseteq {t}
      BY <2>10
    <3> QED   BY <1>1, <1>4, <2>3, <3>1, <3>2, NothingIsSentAbout
  <2>13. CurrentOf(d)'
    <3>1. h \in HighlightsOf(d)' /\ HighlightsOf(d)' \subseteq HighlightsOf(d) \cup {h}
      BY <1>1, <2>2, <2>6 DEF HighlightsOf, Highlights
    <3>2. PICK t \in Knowledge : Leads(server[d], toServer, t, d) /\ (t.open => Fresh(d, t) /\ sent[d] # "no")
      BY <1>1, <1>3, EndIsSeen
    <3>3. PICK x : x = Understood(t, m)
      OBVIOUS
    <3>4. /\ \A p \in SeenOf(d)' : p \in SeenOf(d) \/ p[2] = x
          /\ Ends(d)' \subseteq {x}
      BY <2>10, <3>2, <3>3
    <3>5. /\ sent'[d] # "no" => x.open /\ x.text = text'[d] /\ x.version = version'[d]
          /\ x \in Knowledge
      BY <1>1, <1>3, <3>4, EndAfter DEF LastInv
    <3>6. x.open => t.open /\ x.tag = t.tag
      <4>1. \A v, w : [t EXCEPT !.version = v, !.text = w].tag = t.tag
        BY <3>2 DEF Knowledge
      <4>2. Changed(t, m).tag = t.tag
        BY <4>1 DEF Changed
      <4>3. ~Closed.open
        BY DEF Closed
      <4> QED   BY <2>7, <3>3, <4>2, <4>3
    <3>7. x.open => Fresh(d, x)' /\ sent'[d] # "no"
      <4>1. x.open => sent'[d] # "no" /\ t.tag <= opens[d]
        BY <2>3, <3>2, <3>6 DEF Fresh
      <4>2. x.version \in Int
        BY <3>5, BoundsAreNat DEF Knowledge
      <4> QED   BY <1>1, <3>5, <3>6, <4>1, <4>2 DEF Fresh
    <3>8. \A k : Fresh(d, k) /\ k.version \in Int => Fresh(d, k)'
      BY <1>1, <2>3 DEF Fresh
    <3> QED   BY <1>1, <1>3, <2>6, <3>1, <3>4, <3>7, <3>8, RequestStaysCurrent
  <2> QED   BY <1>3, <2>11, <2>12, <2>13 DEF CurrentInv
<1> QED   BY <1>6, <1>7

LEMMA ChangeLanguageStaysCurrent ==
  ASSUME LastInv, ClientInv', NEW d \in Docs, ChangeLanguage(d)
  PROVE  OrderInv' /\ CurrentInv'
<1> DEFINE m == Notification("didClose", d)
           o == Notification("didOpen", d)
<1>1. /\ main = "idle" /\ tag[d] # 0
      /\ version' = [version EXCEPT ![d] = @ + 1]
      /\ sent' = [sent EXCEPT ![d] = "opened"]
      /\ UNCHANGED <<state, nextId, shutdownId, handlers, main, posted, tag, opens, text, toClient, server>>
      /\ toServer' = toServer \o <<m, o>>
  BY DEF ChangeLanguage, Send, clientVars
<1>2. /\ TypeOK /\ DocumentsInv /\ DocumentsInv' /\ CurrentInv /\ OrderInv /\ ClientInv /\ main' = "idle"
      /\ toServer \in Seq(Message) /\ nextId \in Nat
      /\ UnderWay(posted, toClient, toServer) \subseteq 0..nextId - 1
      /\ \A h \in Highlights : h.id # None
  BY <1>1, UnderWayTypes DEF LastInv, ClientInv
<1>3. /\ version[d] \in Nat /\ version'[d] = version[d] + 1 /\ sent'[d] = "opened"
      /\ \A e \in Docs \ {d} : sent'[e] = sent[e] /\ version'[e] = version[e]
  BY <1>1, <1>2, BoundsAreNat DEF TypeOK, DocumentsInv
<1>4. m \in Message /\ o \in Message
  <2>1. version'[d] \in 0..MaxVersion /\ text'[d] \in 0..MaxText /\ tag'[d] \in 0..MaxOpens
    BY <1>1, <1>2 DEF TypeOK, DocumentsInv
  <2> QED   BY <2>1, NotificationIsMessage
<1>5. /\ m.doc = d /\ m.id = None /\ m.method = "didClose"
      /\ o.doc = d /\ o.id = None /\ o.method = "didOpen" /\ o.version = version'[d] /\ o.text = text'[d]
      /\ o.tag = tag'[d]
  BY DEF Notification
<1>6. PICK x : x = Opened(o)
  OBVIOUS
<1>7. x.open /\ x.version = version'[d] /\ x.text = text'[d] /\ x.tag = tag'[d]
  BY <1>5, <1>6 DEF Opened
<1>8. \A t, e : /\ After(t, m, e) = (IF e = d THEN Closed ELSE t)
                /\ After(After(t, m, e), o, e) = (IF e = d THEN x ELSE t)
  BY <1>5, <1>6 DEF After, Understood
<1> HIDE DEF m, o
<1>9. toServer' = Append(Append(toServer, m), o)
  <2>1. toServer' = toServer \o (<<m>> \o <<o>>)
    BY <1>1, <1>4, PairIsConcat
  <2> QED   BY <1>2, <1>4, <2>1, TwoAreAppended
<1>10. /\ ElementsOf(toServer') = ElementsOf(toServer) \cup {m, o}
       /\ Ordered(posted', toClient', toServer', nextId')
       /\ UnderWay(posted', toClient', toServer') = UnderWay(posted, toClient, toServer)
       /\ \A e \in Docs, t \in Knowledge : Leads(server[e], toServer, t, e) =>
            /\ \A p \in SeenOf(e)' : \/ p \in SeenOf(e)
                                     \/ p[1] = None /\ p[2] = IF e = d THEN Closed ELSE t
                                     \/ p[1] = None /\ p[2] = IF e = d THEN x ELSE t
            /\ Ends(e)' \subseteq {IF e = d THEN x ELSE t}
  <2>1. /\ ElementsOf(toServer') = ElementsOf(toServer) \cup {m, o}
        /\ Ordered(posted', toClient', toServer', nextId')
        /\ UnderWay(posted', toClient', toServer') = UnderWay(posted, toClient, toServer)
        /\ \A e \in Docs, t \in Knowledge : Leads(server[e], toServer, t, e) =>
             /\ \A p \in SeenOf(e)' : \/ p \in SeenOf(e)
                                      \/ p[1] = None /\ p[2] = After(t, m, e)
                                      \/ p[1] = o.id /\ p[2] = After(After(t, m, e), o, e)
             /\ Ends(e)' \subseteq {After(After(t, m, e), o, e)}
    BY <1>1, <1>2, <1>4, <1>5, <1>9, TwoAreSent
  <2> QED   BY <1>5, <1>8, <2>1
<1>11. /\ Highlights' = Highlights /\ Answers' = Answers
       /\ \A e \in Docs : HighlightsOf(e)' = HighlightsOf(e)
  BY <1>1 DEF Highlights, HighlightsOf, Answers
<1>12. OrderInv'
  <2>1. \A k \in ElementsOf(toServer') : k \in ElementsOf(toServer) \/ k.id = None
    BY <1>5, <1>10
  <2>2. /\ \A g, h \in handlers' : g.id = h.id => g = h
        /\ \A h \in Highlights' : h.id \in UnderWay(posted', toClient', toServer')
    BY <1>1, <1>2, <1>10, <1>11 DEF OrderInv
  <2> QED   BY <1>1, <1>2, <1>10, <1>11, <2>1, <2>2, OrderIsKept
<1>13. ASSUME NEW e \in Docs \ {d} PROVE CurrentOf(e)'
  <2>1. \A t \in Knowledge : Leads(server[e], toServer, t, e) =>
          /\ \A p \in SeenOf(e)' : p \in SeenOf(e) \/ (p[1] \in {None, nextId} /\ p[2] = t)
          /\ Ends(e)' \subseteq {t}
    BY <1>10
  <2> QED   BY <1>1, <1>3, <1>11, <2>1, NothingIsSentAbout
<1>14. CurrentOf(d)'
  <2>1. PICK t \in Knowledge : Leads(server[d], toServer, t, d)
    BY <1>1, <1>2, EndIsSeen
  <2>2. \A p \in SeenOf(d)' : p \in SeenOf(d) \/ (p[1] = None /\ p[2] \in {Closed, x})
    BY <1>10, <2>1
  <2>3. CurrentOf(d) /\ \A n, y : Awaited(d, n, y)' <=> Awaited(d, n, y)
    BY <1>1, <1>2, <1>11 DEF CurrentInv, Awaited, AskedLast
  <2>4. \A k : k.version \in Int /\ Fresh(d, k) => Fresh(d, k)'
    BY <1>1, <1>3 DEF Fresh
  <2>5. Fresh(d, x)'
    <3>1. tag'[d] <= opens'[d]
      BY <1>2 DEF DocumentsInv
    <3> QED   BY <1>3, <1>7, <3>1 DEF Fresh
  <2>6. \A y : Awaited(d, None, y)
    BY <1>2 DEF Awaited, AskedLast, HighlightsOf
  <2>7. ~Closed.open
    BY DEF Closed
  <2>8. \A p \in SeenOf(d) : p[2].version \in Int
    <3>1. \A p \in SeenOf(d) : p[2] \in Knowledge
      BY <1>1, <1>2, EndIsSeen
    <3> QED   BY <3>1, BoundsAreNat DEF Knowledge
  <2>9. \A a \in Answers : a.version \in Int
    <3>1. \A a \in Answers : a \in Answer
      BY <1>1, <1>2, UnderWayTypes
    <3> QED   BY <3>1, BoundsAreNat DEF Answer
  <2>10. \A p \in SeenOf(d)' : p[2].open => Fresh(d, p[2])' /\ Awaited(d, p[1], p[2].text)'
    BY <2>2, <2>3, <2>4, <2>5, <2>6, <2>7, <2>8 DEF CurrentOf
  <2>11. \A a \in Answers' : /\ a.method = "publishDiagnostics" /\ a.doc = d => Fresh(d, a)'
                             /\ a.method = "reply" /\ a.outcome = "result" => Awaited(d, a.id, a.text)'
    BY <1>11, <2>3, <2>4, <2>9 DEF CurrentOf
  <2> QED   BY <1>3, <2>10, <2>11 DEF CurrentOf
<1> QED   BY <1>2, <1>12, <1>13, <1>14 DEF CurrentInv

LEMMA CloseStaysCurrent ==
  ASSUME LastInv, ClientInv', NEW d \in Docs, Close(d)
  PROVE  OrderInv' /\ CurrentInv'
<1>1. CASE state # "ready"
  BY <1>1 DEF Close, AssertionFails, OrderInv, CurrentInv
<1>2. CASE state = "ready"
  <2> DEFINE m == Notification("didClose", d)
  <2>1. /\ main = "idle" /\ CancelHover({d}) /\ DestroyTags({d})
        /\ toServer' = toServer \o <<m>>
        /\ UNCHANGED <<state, nextId, shutdownId, posted, main, toClient, server>>
    BY <1>2 DEF Close, Send
  <2>2. /\ TypeOK /\ DocumentsInv /\ HandlersInv /\ CurrentInv /\ OrderInv /\ ClientInv /\ main' = "idle"
        /\ toServer \in Seq(Message)
    BY <2>1, UnderWayTypes DEF LastInv, ClientInv
  <2>3. /\ tag'[d] = 0 /\ UNCHANGED <<opens, text>> /\ version'[d] \in 0..MaxVersion
        /\ \A e \in Docs \ {d} : tag'[e] = tag[e] /\ sent'[e] = sent[e] /\ version'[e] = version[e]
    BY <2>1, <2>2, DestroyTagsKeepsTypes
  <2>4. m \in Message
    BY <2>2, <2>3, NoneOfThem, NotificationIsMessage DEF DocumentsInv
  <2>5. m.doc = d /\ m.id = None /\ m.method = "didClose"
    BY DEF Notification
  <2>6. \A t, e : After(t, m, e) = IF e = d THEN Closed ELSE t
    BY <2>5 DEF After, Understood
  <2> HIDE DEF m
  <2>7. toServer' = Append(toServer, m)
    BY <2>1, <2>2, <2>4, TwoAreAppended
  <2>8. /\ ElementsOf(toServer') = ElementsOf(toServer) \cup {m}
        /\ Ordered(posted', toClient', toServer', nextId')
        /\ UnderWay(posted', toClient', toServer') = UnderWay(posted, toClient, toServer)
        /\ \A e \in Docs, t \in Knowledge : Leads(server[e], toServer, t, e) =>
             /\ \A p \in SeenOf(e)' : p \in SeenOf(e) \/ (p[1] = None /\ p[2] = IF e = d THEN Closed ELSE t)
             /\ Ends(e)' \subseteq {IF e = d THEN Closed ELSE t}
    BY <2>1, <2>2, <2>4, <2>5, <2>6, <2>7, OneIsSent
  <2>9. /\ Highlights' = Highlights /\ Answers' = Answers
        /\ \A g, h \in handlers' : g.id = h.id => g = h
    BY <2>1, <2>2, HighlightsAreNotCancelled DEF OrderInv, Answers
  <2>10. OrderInv'
    <3>1. \A k \in ElementsOf(toServer') : k \in ElementsOf(toServer) \/ k.id = None
      BY <2>5, <2>8
    <3>2. \A h \in Highlights' : h.id \in UnderWay(posted', toClient', toServer')
      BY <2>1, <2>2, <2>8, <2>9 DEF OrderInv
    <3> QED   BY <2>1, <2>2, <2>8, <2>9, <3>1, <3>2, OrderIsKept
  <2>11. ASSUME NEW e \in Docs \ {d} PROVE CurrentOf(e)'
    <3>1. \A t \in Knowledge : Leads(server[e], toServer, t, e) =>
            /\ \A p \in SeenOf(e)' : p \in SeenOf(e) \/ (p[1] \in {None, nextId} /\ p[2] = t)
            /\ Ends(e)' \subseteq {t}
      BY <2>8
    <3>2. HighlightsOf(e)' = HighlightsOf(e)
      BY <2>3, <2>9 DEF HighlightsOf
    <3> QED   BY <2>1, <2>3, <2>9, <3>1, <3>2, NothingIsSentAbout
  <2>12. CurrentOf(d)'
    <3>1. PICK t \in Knowledge : Leads(server[d], toServer, t, d)
      BY <2>1, <2>2, EndIsSeen
    <3>2. /\ \A p \in SeenOf(d)' : p \in SeenOf(d) \/ p[2] = Closed
          /\ Ends(d)' \subseteq {Closed}
      BY <2>8, <3>1
    <3>3. CurrentOf(d) /\ (\A n, y : Awaited(d, n, y)') /\ \A k : Fresh(d, k) => Fresh(d, k)'
      BY <2>1, <2>2, <2>3 DEF CurrentInv, Awaited, Fresh
    <3>4. ~Closed.open
      BY DEF Closed
    <3> QED   BY <2>9, <3>2, <3>3, <3>4 DEF CurrentOf
  <2> QED   BY <2>2, <2>10, <2>11, <2>12 DEF CurrentInv
<1> QED   BY <1>1, <1>2

LEMMA TooltipStaysCurrent ==
  ASSUME LastInv, ClientInv', NEW d \in Docs, ShowTooltip(d) \/ DestroyTooltip(d)
  PROVE  OrderInv' /\ CurrentInv'
<1>1. CASE ShowTooltip(d)
  <2> DEFINE r == Request("hover", nextId, d)
             h == Handler(nextId, "hover", d)
  <2>1. /\ main = "idle" /\ state = "ready"
        /\ UNCHANGED <<main, posted, tag, sent, opens, text, version, toClient, server, state, shutdownId>>
        /\ nextId' = nextId + 1 /\ handlers' = handlers \cup {h}
        /\ toServer' = toServer \o (<<>> \o <<r>>)
    BY <1>1 DEF ShowTooltip, SendRequest, Send
  <2>2. /\ DocumentsInv /\ TypeOK /\ CurrentInv /\ OrderInv /\ ClientInv /\ main' = "idle"
        /\ toServer \in Seq(Message) /\ nextId \in Nat
    BY <2>1, UnderWayTypes DEF LastInv, ClientInv
  <2>3. r \in Message
    <3>1. version'[d] \in 0..MaxVersion /\ text'[d] \in 0..MaxText /\ tag'[d] \in 0..MaxOpens /\ nextId \in Int
      BY <2>1, <2>2 DEF DocumentsInv, TypeOK
    <3> QED   BY <3>1, NotificationIsMessage DEF Request
  <2>4. r.id = nextId /\ r.doc = d /\ nextId # None /\ h.id = nextId /\ h.kind = "hover" /\ h.doc = d
    BY <2>2 DEF Request, Notification, Handler, None
  <2> HIDE DEF r, h
  <2>5. toServer' = Append(toServer, r)
    <3>1. <<>> \o <<r>> = <<r>>
      OBVIOUS
    <3> QED   BY <2>1, <2>2, <2>3, <3>1, TwoAreAppended
  <2>6. \A t, e : After(t, r, e) = t
    BY <2>4 DEF After
  <2>7. /\ ElementsOf(toServer') = ElementsOf(toServer) \cup {r}
        /\ Ordered(posted', toClient', toServer', nextId')
        /\ UnderWay(posted', toClient', toServer') = UnderWay(posted, toClient, toServer) \cup {nextId}
        /\ \A e \in Docs, t \in Knowledge : Leads(server[e], toServer, t, e) =>
             /\ \A p \in SeenOf(e)' : p \in SeenOf(e) \/ (p[1] = nextId /\ p[2] = t)
             /\ Ends(e)' \subseteq {t}
    BY <2>1, <2>2, <2>3, <2>4, <2>5, <2>6, OneIsSent
  <2>8. OrderInv'
    BY <2>1, <2>2, <2>4, <2>7, RequestKeepsOrder
  <2>9. ASSUME NEW e \in Docs PROVE CurrentOf(e)'
    <3>1. HighlightsOf(e)' = HighlightsOf(e) /\ Answers' = Answers
      BY <2>1, <2>4 DEF HighlightsOf, Highlights, Answers
    <3>2. \A t \in Knowledge : Leads(server[e], toServer, t, e) =>
            /\ \A p \in SeenOf(e)' : p \in SeenOf(e) \/ (p[1] \in {None, nextId} /\ p[2] = t)
            /\ Ends(e)' \subseteq {t}
      BY <2>7
    <3> QED   BY <2>1, <3>1, <3>2, NothingIsSentAbout
  <2> QED   BY <2>8, <2>9 DEF CurrentInv
<1>2. CASE DestroyTooltip(d) /\ main = "idle"
  <2>1. /\ CancelHover({d})
        /\ UNCHANGED <<state, nextId, shutdownId, posted, main, tag, sent, opens, text, version, toServer, toClient,
                       server>>
    BY <1>2 DEF DestroyTooltip
  <2>2. HandlersInv /\ CurrentInv /\ OrderInv
    BY DEF LastInv, ClientInv
  <2>3. /\ Highlights' = Highlights /\ Answers' = Answers
        /\ \A g, h \in handlers' : g.id = h.id => g = h
        /\ \A e \in Docs : HighlightsOf(e)' = HighlightsOf(e)
    BY <1>2, <2>1, <2>2, HighlightsAreNotCancelled DEF OrderInv, Answers, HighlightsOf
  <2>4. OrderInv'
    BY <1>2, <2>1, <2>2, <2>3 DEF OrderInv
  <2>5. ASSUME NEW e \in Docs PROVE CurrentOf(e)'
    <3>1. CurrentOf(e) /\ SeenOf(e)' = SeenOf(e) /\ Ends(e)' = Ends(e)
      BY <1>2, <2>1, <2>2 DEF CurrentInv, SeenOf, Ends
    <3> QED   BY <2>1, <2>3, <3>1, OthersStayCurrent
  <2> QED   BY <2>4, <2>5 DEF CurrentInv
<1>3. CASE DestroyTooltip(d) /\ main # "idle"
  BY <1>3 DEF DestroyTooltip, Crash, OrderInv, CurrentInv
<1> QED   BY <1>1, <1>2, <1>3

-----------------------------------------------------------------------------
(* What is under way stays current when callbacks are run.                 *)
LEMMA CallbackIsTaken ==
  ASSUME LastInv, main = "idle", posted # <<>>, posted' = Tail(posted), UNCHANGED toClient
  PROVE  /\ Head(posted) \in Answers /\ Answers' \subseteq Answers
         /\ \A q \in Seq(Message), n \in Nat : Ordered(posted, toClient, q, n) =>
              /\ Ordered(posted', toClient', q, n)
              /\ UnderWay(posted, toClient, q) = UnderWay(posted', toClient', q) \cup ({Head(posted).id} \ {None})
              /\ Head(posted).id # None => \A x \in UnderWay(posted', toClient', q) : Head(posted).id < x
<1>1. /\ toServer \in Seq(Message) /\ toClient \in Seq(Answer) /\ posted \in Seq(Answer)
  BY UnderWayTypes DEF LastInv
<1>2. Head(posted) \in ElementsOf(posted) /\ ElementsOf(Tail(posted)) \subseteq ElementsOf(posted)
  BY <1>1, IdsTail, AnswerIds
<1>3. ASSUME NEW q \in Seq(Message), NEW n \in Nat, Ordered(posted, toClient, q, n)
      PROVE  /\ Ordered(Tail(posted), toClient, q, n)
             /\ UnderWay(posted, toClient, q) = UnderWay(Tail(posted), toClient, q) \cup ({Head(posted).id} \ {None})
             /\ Head(posted).id # None => \A x \in UnderWay(Tail(posted), toClient, q) : Head(posted).id < x
  BY <1>1, <1>3, OrderedTake
<1> QED   BY <1>2, <1>3 DEF Answers

(* A reply that is not for a highlight. *)
LEMMA OtherReplyStaysCurrent ==
  ASSUME LastInv, NEW h \in handlers, OnInitialize(h) \/ OnHover(h) \/ OnCancelled(h)
  PROVE  OrderInv' /\ CurrentInv'
<1>1. /\ main = "idle" /\ posted # <<>> /\ posted' = Tail(posted)
      /\ Head(posted).id = h.id /\ handlers' = handlers \ {h} /\ h.kind # "highlight"
      /\ UNCHANGED <<nextId, shutdownId, main, tag, sent, opens, text, version, toClient, server>>
      /\ \/ state' = "ready" /\ toServer' = toServer \o <<Bare("initialized", None)>>
         \/ UNCHANGED <<state, toServer>>
  BY DEF OnInitialize, OnHover, OnCancelled, TakesReply, TakeReply, Send
<1>2. /\ CurrentInv /\ OrderInv /\ ClientInv /\ main' = "idle"
      /\ toServer \in Seq(Message) /\ nextId \in Nat /\ Ordered(posted, toClient, toServer, nextId)
  BY <1>1, UnderWayTypes DEF LastInv
<1>3. /\ Answers' \subseteq Answers
      /\ \A q \in Seq(Message), n \in Nat : Ordered(posted, toClient, q, n) =>
           /\ Ordered(posted', toClient', q, n)
           /\ UnderWay(posted, toClient, q) = UnderWay(posted', toClient', q) \cup ({Head(posted).id} \ {None})
  BY <1>1, CallbackIsTaken
<1>4. Highlights' = Highlights /\ \A d \in Docs : HighlightsOf(d)' = HighlightsOf(d)
  BY <1>1 DEF Highlights, HighlightsOf
<1>5. /\ toServer' \in Seq(Message) /\ Ordered(posted, toClient, toServer', nextId)
      /\ UnderWay(posted, toClient, toServer') = UnderWay(posted, toClient, toServer)
      /\ \A m \in ElementsOf(toServer') : m \in ElementsOf(toServer) \/ m.id = None
      /\ \A d \in Docs, t \in Knowledge : Leads(server[d], toServer, t, d) =>
           /\ \A p \in SeenOf(d)' : p \in SeenOf(d) \/ (p[1] = None /\ p[2] = t)
           /\ Ends(d)' \subseteq {t} \/ Ends(d)' \subseteq Ends(d)
  <2>1. CASE toServer' = toServer
    BY <1>1, <1>2, <2>1 DEF SeenOf, Ends
  <2>2. CASE toServer' = toServer \o <<Bare("initialized", None)>>
    <3> DEFINE m == Bare("initialized", None)
    <3>1. m \in Message /\ m.doc = None /\ m.id = None
      BY NoneOfThem DEF Bare, Message, None
    <3> HIDE DEF m
    <3>2. toServer' = Append(toServer, m) /\ Append(toServer, m) \in Seq(Message)
      BY <1>2, <2>2, <3>1, TwoAreAppended DEF m
    <3>3. ElementsOf(Append(toServer, m)) = ElementsOf(toServer) \cup {m}
      BY <1>2, <3>1, IdsAppend, NoneOfThem
    <3>4. /\ Ordered(posted, toClient, Append(toServer, m), nextId)
          /\ UnderWay(posted, toClient, Append(toServer, m)) = UnderWay(posted, toClient, toServer)
      BY <1>1, <1>2, <3>1, UnderWayTypes, OrderedSend
    <3>5. ASSUME NEW d \in Docs, NEW t \in Knowledge, Leads(server[d], toServer, t, d)
          PROVE  /\ \A p \in SeenOf(d)' : p \in SeenOf(d) \/ (p[1] = None /\ p[2] = t)
                 /\ Ends(d)' \subseteq {t}
      <4>1. After(t, m, d) = t
        BY <3>1, BoundsAreNat DEF After
      <4>2. Seen(server[d], Append(toServer, m), d) \subseteq Seen(server[d], toServer, d) \cup {<<m.id, After(t, m, d)>>}
        BY <1>2, <3>1, <3>5, SeenAppend
      <4>3. \A u : Leads(server[d], Append(toServer, m), u, d) => u = After(t, m, d)
        BY <1>2, <3>1, <3>5, EndAppend
      <4>4. server' = server
        BY <1>1
      <4>5. \A p \in SeenOf(d)' : p \in SeenOf(d) \/ (p[1] = None /\ p[2] = t)
        BY <3>1, <3>2, <4>1, <4>2, <4>4 DEF SeenOf
      <4> QED   BY <3>2, <4>1, <4>3, <4>4, <4>5 DEF Ends
    <3> QED   BY <3>1, <3>2, <3>3, <3>4, <3>5
  <2> QED   BY <1>1, <2>1, <2>2
<1>6. /\ Ordered(posted', toClient', toServer', nextId')
      /\ UnderWay(posted, toClient, toServer) = UnderWay(posted', toClient', toServer') \cup ({h.id} \ {None})
  BY <1>1, <1>2, <1>3, <1>5
<1>7. OrderInv'
  <2>1. \A g \in Highlights : g \in handlers /\ g.kind = "highlight"
    BY DEF Highlights
  <2>2. \A g \in Highlights' : g.id \in UnderWay(posted', toClient', toServer')
    BY <1>1, <1>2, <1>4, <1>6, <2>1 DEF OrderInv
  <2>3. \A f, g \in handlers' : f.id = g.id => f = g
    BY <1>1, <1>2 DEF OrderInv
  <2> QED   BY <1>1, <1>2, <1>3, <1>4, <1>5, <1>6, <2>2, <2>3, OrderIsKept
<1>8. ASSUME NEW d \in Docs PROVE CurrentOf(d)'
  <2>1. PICK t \in Knowledge : Leads(server[d], toServer, t, d) /\ t \in Ends(d) /\ t \in ComesToKnow(d)
    BY <1>1, <1>2, EndIsSeen
  <2>2. /\ \A p \in SeenOf(d)' : p \in SeenOf(d) \/ (p[1] = None /\ p[2] \in ComesToKnow(d))
        /\ Ends(d)' \subseteq Ends(d)
    BY <1>5, <2>1
  <2>3. \A g \in HighlightsOf(d) : g.id # None
    BY <1>1, <1>2, UnderWayTypes DEF HighlightsOf
  <2>4. CurrentOf(d)
    BY <1>1, <1>2 DEF CurrentInv
  <2> QED   BY <1>1, <1>3, <1>4, <2>2, <2>3, <2>4, OthersStayCurrent
<1> QED   BY <1>7, <1>8 DEF CurrentInv

(* The reply to the first request that is under way: what is awaited is    *)
(* still awaited, or was for that request.                                 *)
LEMMA HighlightStaysCurrent ==
  ASSUME LastInv, NEW h \in handlers, OnSemanticTokens(h)
  PROVE  OrderInv' /\ CurrentInv'
<1>1. /\ main = "idle" /\ posted # <<>> /\ posted' = Tail(posted)
      /\ Head(posted).id = h.id /\ handlers' = handlers \ {h} /\ h.kind = "highlight"
      /\ UNCHANGED <<state, nextId, shutdownId, main, tag, sent, opens, text, version, toServer, toClient, server>>
  BY DEF OnSemanticTokens, TakesReply, TakeReply
<1>2. /\ CurrentInv /\ OrderInv /\ ClientInv /\ main' = "idle"
      /\ toServer \in Seq(Message) /\ nextId \in Nat /\ Ordered(posted, toClient, toServer, nextId)
      /\ \A g \in Highlights : g.id # None /\ g.id \in Int
  BY <1>1, UnderWayTypes DEF LastInv
<1>3. /\ Answers' \subseteq Answers
      /\ Ordered(posted', toClient', toServer', nextId')
      /\ UnderWay(posted, toClient, toServer) = UnderWay(posted', toClient', toServer') \cup ({h.id} \ {None})
      /\ h.id # None => \A x \in UnderWay(posted', toClient', toServer') : h.id < x
  BY <1>1, <1>2, CallbackIsTaken
<1>4. Highlights' = Highlights \ {h} /\ h \in Highlights /\ Highlights \subseteq handlers
  BY <1>1 DEF Highlights
<1>5. \A g \in Highlights \ {h} : g.id \in UnderWay(posted', toClient', toServer') /\ h.id < g.id
  <2>1. \A g \in Highlights \ {h} : g.id # h.id
    BY <1>1, <1>2, <1>4 DEF OrderInv
  <2>2. \A g \in Highlights : g.id \in UnderWay(posted, toClient, toServer)
    BY <1>1, <1>2 DEF OrderInv
  <2> QED   BY <1>2, <1>3, <1>4, <2>1, <2>2
<1>6. OrderInv'
  <2>1. \A f, g \in handlers' : f.id = g.id => f = g
    BY <1>1, <1>2 DEF OrderInv
  <2> QED   BY <1>1, <1>2, <1>3, <1>4, <1>5, <2>1, OrderIsKept
<1>7. ASSUME NEW d \in Docs PROVE CurrentOf(d)'
  <2>1. HighlightsOf(d)' = HighlightsOf(d) \ {h} /\ HighlightsOf(d) \subseteq Highlights
    BY <1>1, <1>4 DEF HighlightsOf
  <2>2. \A n : AskedLast(d, n)' => AskedLast(d, n)
    <3> SUFFICES ASSUME NEW n, NEW g \in HighlightsOf(d) \ {h}, g.id = n, \A f \in HighlightsOf(d) \ {h} : f.id <= n
                 PROVE  \A f \in HighlightsOf(d) : f.id <= n
      BY <2>1 DEF AskedLast
    <3>1. g.id \in Int /\ h.id \in Int /\ h.id < g.id
      BY <1>2, <1>4, <1>5, <2>1
    <3> QED   BY <3>1
  <2>3. CurrentOf(d) /\ SeenOf(d)' = SeenOf(d) /\ Ends(d)' = Ends(d)
    BY <1>1, <1>2 DEF CurrentInv, SeenOf, Ends
  <2>4. \A n, x : Awaited(d, n, x) => Awaited(d, n, x)'
    BY <1>1, <2>2 DEF Awaited
  <2>5. \A k : Fresh(d, k)' <=> Fresh(d, k)
    BY <1>1 DEF Fresh
  <2> QED   BY <1>1, <1>3, <2>3, <2>4, <2>5 DEF CurrentOf
<1> QED   BY <1>6, <1>7 DEF CurrentInv

LEMMA DiagnosticsStayCurrent ==
  ASSUME LastInv, OnPublishDiagnostics
  PROVE  OrderInv' /\ CurrentInv'
<1>1. /\ main = "idle" /\ posted # <<>> /\ posted' = Tail(posted) /\ Head(posted).method = "publishDiagnostics"
      /\ UNCHANGED <<state, nextId, shutdownId, handlers, main, tag, sent, opens, text, version, toServer, toClient,
                     server>>
  BY DEF OnPublishDiagnostics, clientVars
<1>2. /\ CurrentInv /\ OrderInv /\ ClientInv /\ main' = "idle"
      /\ toServer \in Seq(Message) /\ nextId \in Nat /\ Ordered(posted, toClient, toServer, nextId)
  BY <1>1, UnderWayTypes DEF LastInv
<1>3. /\ Head(posted) \in Answers /\ Answers' \subseteq Answers
      /\ Ordered(posted', toClient', toServer', nextId')
      /\ UnderWay(posted, toClient, toServer) = UnderWay(posted', toClient', toServer') \cup ({Head(posted).id} \ {None})
  BY <1>1, <1>2, CallbackIsTaken
<1>4. Head(posted).id = None
  BY <1>1, <1>2, <1>3 DEF OrderInv
<1>5. Highlights' = Highlights /\ \A d \in Docs : HighlightsOf(d)' = HighlightsOf(d)
  BY <1>1 DEF Highlights, HighlightsOf
<1>6. OrderInv'
  <2>1. \A f, g \in handlers' : f.id = g.id => f = g
    BY <1>1, <1>2 DEF OrderInv
  <2>2. \A g \in Highlights' : g.id \in UnderWay(posted', toClient', toServer')
    BY <1>1, <1>2, <1>3, <1>4, <1>5 DEF OrderInv
  <2> QED   BY <1>1, <1>2, <1>3, <1>5, <2>1, <2>2, OrderIsKept
<1>7. ASSUME NEW d \in Docs PROVE CurrentOf(d)'
  <2>1. CurrentOf(d) /\ SeenOf(d)' = SeenOf(d) /\ Ends(d)' = Ends(d)
    BY <1>1, <1>2 DEF CurrentInv, SeenOf, Ends
  <2> QED   BY <1>1, <1>3, <1>5, <2>1, OthersStayCurrent
<1> QED   BY <1>6, <1>7 DEF CurrentInv

LEMMA InitIsCurrent == Init => OrderInv /\ CurrentInv
<1> SUFFICES ASSUME Init PROVE OrderInv /\ CurrentInv
  OBVIOUS
<1> DEFINE m == Bare("initialize", 0)
<1>1. /\ posted = <<>> /\ toClient = <<>> /\ toServer = <<m>> /\ nextId = 1 /\ shutdownId = None
      /\ \A h \in handlers : h.id = 0 /\ h.kind = "initialize" /\ h.doc = None /\ h.tag = 0
      /\ \A g, h \in handlers : g = h
      /\ \A d \in Docs : tag[d] = 0 /\ server[d] = Closed
  BY DEF Init
<1>2. m.id = 0 /\ m.doc = None /\ m \in Message /\ None \notin Docs /\ None = -1
  BY BoundsAreNat DEF Bare, Message, None
<1> HIDE DEF m
<1>3. /\ Len(posted) = 0 /\ Len(toClient) = 0 /\ Len(toServer) = 1 /\ toServer[1] = m
      /\ toServer \in Seq(Message)
  BY <1>1, <1>2
<1>4. ElementsOf(posted) = {} /\ ElementsOf(toClient) = {} /\ ElementsOf(toServer) = {m} /\ Highlights = {} /\ Answers = {}
  BY <1>1, <1>3 DEF ElementsOf, Highlights, Answers
<1>5. Ids(posted) = {} /\ Ids(toClient) = {} /\ Ids(toServer) = {0}
  BY <1>2, <1>3 DEF Ids
<1>6. Ordered(posted, toClient, toServer, nextId)
  <2>1. Rising(posted) /\ Rising(toClient) /\ Rising(toServer)
    BY <1>3 DEF Rising
  <2>2. UnderWay(posted, toClient, toServer) \subseteq 0..nextId - 1
    BY <1>1, <1>5 DEF UnderWay
  <2> QED   BY <1>5, <2>1, <2>2 DEF Ordered, Earlier
<1>7. OrderInv
  BY <1>1, <1>4, <1>6 DEF OrderInv
<1>8. ASSUME NEW d \in Docs PROVE CurrentOf(d)
  <2>1. tag[d] = 0 /\ server[d] = Closed /\ ~Closed.open
    BY <1>1 DEF Closed
  <2>2. ASSUME NEW seen, seen[0] = Closed, \A i \in 1..Len(toServer) : seen[i] = After(seen[i - 1], toServer[i], d)
        PROVE  seen[1] = Closed
    BY <1>2, <1>3, <2>2 DEF After
  <2>3. \A t \in Ends(d) : ~t.open
    BY <1>3, <2>1, <2>2 DEF Ends, Leads
  <2>4. \A p \in SeenOf(d) : ~p[2].open
    BY <1>3, <2>1, <2>2 DEF SeenOf, Seen, Path
  <2> QED   BY <1>4, <2>3, <2>4 DEF CurrentOf
<1> QED   BY <1>7, <1>8 DEF CurrentInv

LEMMA StutterStaysCurrent == LastInv /\ UNCHANGED vars => OrderInv' /\ CurrentInv'
<1> SUFFICES ASSUME LastInv, UNCHANGED vars PROVE OrderInv' /\ CurrentInv'
  OBVIOUS
<1>1. UNCHANGED <<state, nextId, shutdownId, handlers, posted, main, tag, sent, opens, text, version, toServer, toClient,
                  server>>
  BY DEF vars, clientVars, documentVars
<1>2. Highlights' = Highlights /\ Answers' = Answers /\ \A d \in Docs : HighlightsOf(d)' = HighlightsOf(d)
  BY <1>1 DEF Highlights, HighlightsOf, Answers
<1>3. OrderInv'
  BY <1>1, <1>2 DEF OrderInv, LastInv
<1>4. ASSUME NEW d \in Docs, CurrentOf(d) PROVE CurrentOf(d)'
  <2>1. SeenOf(d)' = SeenOf(d) /\ Ends(d)' = Ends(d)
    BY <1>1 DEF SeenOf, Ends
  <2> QED   BY <1>1, <1>2, <1>4, <2>1, OthersStayCurrent
<1> QED   BY <1>1, <1>3, <1>4 DEF CurrentInv, LastInv

LEMMA NextStaysCurrent == LastInv /\ [Next]_vars => LastInv'
<1> SUFFICES ASSUME LastInv, [Next]_vars PROVE LastInv'
  OBVIOUS
<1>1. ClientInv'
  BY NextKeepsInv DEF LastInv
<1>2. ASSUME main' # "idle" PROVE OrderInv' /\ CurrentInv'
  BY <1>2 DEF OrderInv, CurrentInv
<1>3. CASE User
  <2>1. Disable => main' # "idle"
    BY DEF Disable, AssertionFails
  <2> QED   BY <1>1, <1>2, <1>3, <2>1, OpenStaysCurrent, EditStaysCurrent, ChangeLanguageStaysCurrent, CloseStaysCurrent,
               TooltipStaysCurrent DEF User, LastInv
<1>4. CASE SendShutdownRequest \/ JoinReceiver \/ Receive
  <2>1. SendShutdownRequest => main' # "idle"
    BY DEF SendShutdownRequest
  <2> QED   BY <1>1, <1>2, <1>4, <2>1, ReceiverStaysCurrent DEF LastInv
<1>5. CASE Callback
  <2>1. CallbackDangling \/ (\E h \in handlers : OnSemanticTokensDangling(h)) => main' # "idle"
    BY DEF CallbackDangling, OnSemanticTokensDangling, Crash
  <2> QED   BY <1>1, <1>2, <1>5, <2>1, OtherReplyStaysCurrent, HighlightStaysCurrent, DiagnosticsStayCurrent
               DEF Callback, LastInv
<1>6. CASE Server
  BY <1>1, <1>6, ServerStaysCurrent DEF LastInv
<1>7. CASE UNCHANGED vars
  BY <1>1, <1>7, StutterStaysCurrent DEF LastInv
<1> QED   BY <1>3, <1>4, <1>5, <1>6, <1>7 DEF Next

(* Where diagnostics are kept.                                             *)
DiagnosticsInv == diagnostics \in [Docs -> [text : None..MaxText, tag : 0..MaxOpens]]

(* Only four actions write to what is displayed.                           *)
Displays(d) ==
  \/ \E h \in handlers : OnSemanticTokens(h)
  \/ OnPublishDiagnostics
  \/ Close(d) /\ state = "ready"
  \/ Disable /\ state = "ready"

LEMMA WhoDisplays ==
  ASSUME [Next]_vars
  PROVE  UNCHANGED <<shown, diagnostics>> \/ \E d \in Docs : Displays(d)
<1>1. ASSUME User PROVE UNCHANGED <<shown, diagnostics>> \/ \E d \in Docs : Displays(d)
  <2>1. ASSUME NEW d \in Docs, Open(d) \/ ChangeLanguage(d) \/ ShowTooltip(d) \/ (\E n \in 1..MaxChanges : Edit(d, n))
        PROVE  UNCHANGED <<shown, diagnostics>>
    BY <2>1 DEF Open, ChangeLanguage, ShowTooltip, Edit
  <2>2. ASSUME NEW d \in Docs, DestroyTooltip(d) PROVE UNCHANGED <<shown, diagnostics>>
    BY <2>2 DEF DestroyTooltip, Crash, documentVars
  <2>3. ASSUME NEW d \in Docs, Close(d) PROVE UNCHANGED <<shown, diagnostics>> \/ Displays(d)
    BY <2>3 DEF Close, AssertionFails, documentVars, Displays
  <2>4. ASSUME Disable PROVE UNCHANGED <<shown, diagnostics>> \/ \E d \in Docs : Displays(d)
    BY <2>4, BoundsAssumption DEF Disable, AssertionFails, documentVars, Displays
  <2> QED   BY <1>1, <2>1, <2>2, <2>3, <2>4 DEF User
<1>2. ASSUME SendShutdownRequest \/ JoinReceiver \/ Receive \/ Server \/ UNCHANGED vars PROVE UNCHANGED <<shown, diagnostics>>
  BY <1>2 DEF SendShutdownRequest, JoinReceiver, Receive, Server, vars, documentVars
<1>3. ASSUME Callback PROVE UNCHANGED <<shown, diagnostics>> \/ \E d \in Docs : Displays(d)
  <2>1. ASSUME NEW h \in handlers, OnInitialize(h) \/ OnHover(h) \/ OnCancelled(h) \/ OnSemanticTokensDangling(h)
        PROVE  UNCHANGED <<shown, diagnostics>>
    BY <2>1 DEF OnInitialize, OnHover, OnCancelled, OnSemanticTokensDangling, TakeReply, Crash, documentVars
  <2>2. CallbackDangling => UNCHANGED <<shown, diagnostics>>
    BY DEF CallbackDangling, Crash, documentVars
  <2>3. Docs # {}
    BY BoundsAssumption
  <2>4. (\E h \in handlers : OnSemanticTokens(h)) \/ OnPublishDiagnostics => \A d \in Docs : Displays(d)
    BY DEF Displays
  <2> QED   BY <1>3, <2>1, <2>2, <2>3, <2>4 DEF Callback
<1> QED   BY <1>1, <1>2, <1>3 DEF Next

LEMMA DestroyTagsClears ==
  ASSUME NEW closing \in SUBSET Docs, DestroyTags(closing), DiagnosticsInv, NEW d \in Docs
  PROVE  /\ shown'[d] \in {shown[d], None}
         /\ diagnostics'[d].tag = tag[d] /\ tag[d] # 0 => diagnostics'[d] = diagnostics[d]
         /\ DiagnosticsInv'
<1>1. /\ shown'[d] = IF d \in closing THEN None ELSE shown[d]
      /\ diagnostics' = [e \in Docs |-> IF e \in closing THEN [text |-> None, tag |-> 0] ELSE diagnostics[e]]
  BY DEF DestroyTags
<1>2. [text |-> None, tag |-> 0] \in [text : None..MaxText, tag : 0..MaxOpens]
  BY BoundsAreNat DEF None
<1> QED   BY <1>1, <1>2 DEF DiagnosticsInv

LEMMA AppliesDiagnostics ==
  ASSUME LastInv, DiagnosticsInv, OnPublishDiagnostics, NEW d \in Docs
  PROVE  /\ UNCHANGED shown
         /\ /\ diagnostics'[d] # diagnostics[d] /\ diagnostics'[d].tag = tag[d] /\ tag[d] # 0
            /\ Head(posted).version # None
            => diagnostics'[d].text = text[d]
         /\ DiagnosticsInv'
<1>1. PICK a : a = Head(posted)
  OBVIOUS
<1>2. /\ main = "idle" /\ posted # <<>> /\ posted' = Tail(posted) /\ UNCHANGED <<shown, toClient>>
      /\ a.method = "publishDiagnostics"
      /\ diagnostics' = IF tag[a.doc] # 0 /\ a.version \in {None, version[a.doc]}
                          THEN [diagnostics EXCEPT ![a.doc] = [text |-> a.text, tag |-> a.tag]] ELSE diagnostics
  BY <1>1 DEF OnPublishDiagnostics
<1>3. a \in Answers /\ a \in Answer /\ a.doc \in Docs
  <2>1. a \in Answers
    BY <1>1, <1>2, CallbackIsTaken
  <2>2. a \in Answer
    BY <1>2, <2>1, UnderWayTypes DEF LastInv
  <2> QED   BY <1>2, <2>1, <2>2 DEF LastInv, OrderInv
<1>4. DiagnosticsInv'
  <2>1. [text |-> a.text, tag |-> a.tag] \in [text : None..MaxText, tag : 0..MaxOpens]
    BY <1>3 DEF Answer
  <2> QED   BY <1>2, <1>3, <2>1 DEF DiagnosticsInv
<1>5. ASSUME diagnostics'[d] # diagnostics[d], diagnostics'[d].tag = tag[d], tag[d] # 0, a.version # None
      PROVE  diagnostics'[d].text = text[d]
  <2>1. a.doc = d /\ a.version = version[d] /\ diagnostics'[d] = [text |-> a.text, tag |-> a.tag]
    BY <1>2, <1>3, <1>5 DEF DiagnosticsInv
  <2>2. Fresh(d, a)
    BY <1>2, <1>3, <2>1 DEF LastInv, CurrentInv, CurrentOf
  <2>3. a.tag = tag[d]
    BY <1>5, <2>1
  <2> QED   BY <1>5, <2>1, <2>2, <2>3 DEF Fresh
<1> QED   BY <1>1, <1>2, <1>4, <1>5

LEMMA AppliesTokens ==
  ASSUME LastInv, NEW h \in handlers, OnSemanticTokens(h), NEW d \in Docs
  PROVE  /\ UNCHANGED diagnostics
         /\ shown'[d] \notin {shown[d], None} => shown'[d] = text[d]
<1>1. PICK a : a = Head(posted)
  OBVIOUS
<1>2. /\ main = "idle" /\ posted # <<>> /\ posted' = Tail(posted) /\ UNCHANGED <<diagnostics, toClient>>
      /\ a.method = "reply" /\ a.id = h.id /\ h.kind = "highlight" /\ tag[h.doc] = h.tag
      /\ shown' = IF a.outcome = "result" /\ queued[h.doc] = 1
                    THEN [shown EXCEPT ![h.doc] = a.text] ELSE shown
  BY <1>1 DEF OnSemanticTokens, TakesReply, TakeReply
<1>3. a \in Answers
  BY <1>1, <1>2, CallbackIsTaken
<1>4. h.doc \in Docs /\ h \in HighlightsOf(h.doc) /\ h.id \in Int /\ tag[h.doc] # 0
  <2>1. h \in Highlights /\ h \in HighlightsOf(h.doc)
    BY <1>2 DEF Highlights, HighlightsOf
  <2>2. h.doc \in Docs /\ tag[h.doc] # 0
    BY <1>2, <2>1 DEF LastInv, ClientInv, HandlersInv
  <2>3. h.id \in Int
    BY <1>2, <2>1, UnderWayTypes DEF LastInv
  <2> QED   BY <2>1, <2>2, <2>3
<1>5. ASSUME shown'[d] \notin {shown[d], None} PROVE shown'[d] = text[d]
  <2>1. d = h.doc /\ a.outcome = "result" /\ queued[d] = 1 /\ shown'[d] = a.text
    <3>1. shown \in [Docs -> None..MaxText]
      BY DEF LastInv, ClientInv, TypeOK
    <3> QED   BY <1>2, <1>4, <1>5, <3>1
  <2>2. HighlightsOf(d) \subseteq {h}
    <3>1. IsFiniteSet(HighlightsOf(d)) /\ Cardinality(HighlightsOf(d)) = 1
      <4>1. IsFiniteSet(Highlights) /\ HighlightsOf(d) \subseteq Highlights
        BY DEF LastInv, ClientInv, HandlersInv, HighlightsOf
      <4> QED   BY <1>2, <1>4, <2>1, <4>1, FS_Subset DEF LastInv, ClientInv, AccountsInv
    <3>2. IsFiniteSet(HighlightsOf(d) \ {h}) /\ Cardinality(HighlightsOf(d) \ {h}) = 0
      BY <1>4, <2>1, <3>1, FS_RemoveElement
    <3> QED   BY <3>2, FS_EmptySet
  <2>3. AskedLast(d, a.id)
    BY <1>2, <1>4, <2>1, <2>2 DEF AskedLast
  <2>4. Awaited(d, a.id, a.text)
    BY <1>2, <1>3, <2>1 DEF LastInv, CurrentInv, CurrentOf
  <2> QED   BY <1>4, <2>1, <2>3, <2>4 DEF Awaited
<1> QED   BY <1>2, <1>5

LEMMA LastInvHolds == Spec => [](LastInv /\ DiagnosticsInv)
<1>1. Init => LastInv /\ DiagnosticsInv
  <2>1. Init => DiagnosticsInv
    BY BoundsAreNat DEF Init, DiagnosticsInv, None
  <2> QED   BY <2>1, InitKeepsInv, InitIsCurrent DEF LastInv
<1>2. LastInv /\ DiagnosticsInv /\ [Next]_vars => (LastInv /\ DiagnosticsInv)'
  <2> SUFFICES ASSUME LastInv, DiagnosticsInv, [Next]_vars PROVE LastInv' /\ DiagnosticsInv'
    OBVIOUS
  <2>1. CASE UNCHANGED diagnostics
    BY <2>1, NextStaysCurrent DEF DiagnosticsInv
  <2>2. ASSUME NEW d \in Docs, Displays(d) PROVE DiagnosticsInv'
    <3>1. CASE Close(d) /\ state = "ready"
      BY <3>1, DestroyTagsClears DEF Close
    <3>2. CASE Disable /\ state = "ready"
      BY <3>2, DestroyTagsClears DEF Disable
    <3>3. ASSUME NEW h \in handlers, OnSemanticTokens(h) PROVE DiagnosticsInv'
      BY <3>3, AppliesTokens DEF DiagnosticsInv
    <3> QED   BY <2>2, <3>1, <3>2, <3>3, AppliesDiagnostics DEF Displays
  <2> QED   BY <2>1, <2>2, WhoDisplays, NextStaysCurrent
<1> QED   BY <1>1, <1>2, PTL DEF Spec

(* _on_semanticTokens() applies a reply only when it lowers                *)
(* _queued_highlight_version to zero, and the handler of                   *)
(* publishDiagnostics, of those that name a version, only one for that of  *)
(* the document: both are then made from the text of the document, however *)
(* many edits, closings and openings there were since the request.         *)
THEOREM RepliesApplyToTheText == Spec => RepliesAreCurrent
<1>1. LastInv /\ DiagnosticsInv /\ [Next]_vars =>
        [\A d \in Docs :
           /\ shown'[d] \notin {shown[d], None} => shown'[d] = text[d]
           /\ /\ diagnostics'[d] # diagnostics[d] /\ diagnostics'[d].tag = tag[d] /\ tag[d] # 0
              /\ Head(posted).version # None
              => diagnostics'[d].text = text[d]]_vars
  <2> SUFFICES ASSUME LastInv, DiagnosticsInv, [Next]_vars, NEW d \in Docs
               PROVE  /\ shown'[d] \notin {shown[d], None} => shown'[d] = text[d]
                      /\ /\ diagnostics'[d] # diagnostics[d] /\ diagnostics'[d].tag = tag[d] /\ tag[d] # 0
                         /\ Head(posted).version # None
                         => diagnostics'[d].text = text[d]
    OBVIOUS
  <2>1. CASE UNCHANGED <<shown, diagnostics>>
    BY <2>1
  <2>2. ASSUME NEW e \in Docs, Displays(e)
        PROVE  /\ shown'[d] \notin {shown[d], None} => shown'[d] = text[d]
               /\ /\ diagnostics'[d] # diagnostics[d] /\ diagnostics'[d].tag = tag[d] /\ tag[d] # 0
                  /\ Head(posted).version # None
                  => diagnostics'[d].text = text[d]
    <3>1. CASE Close(e) /\ state = "ready"
      BY <3>1, DestroyTagsClears DEF Close
    <3>2. CASE Disable /\ state = "ready"
      BY <3>2, DestroyTagsClears DEF Disable
    <3>3. CASE \E h \in handlers : OnSemanticTokens(h)
      BY <3>3, AppliesTokens
    <3>4. CASE OnPublishDiagnostics
      BY <3>4, AppliesDiagnostics
    <3> QED   BY <2>2, <3>1, <3>2, <3>3, <3>4 DEF Displays
  <2> QED   BY <2>1, <2>2, WhoDisplays
<1> QED   BY <1>1, LastInvHolds, PTL DEF Spec, RepliesAreCurrent

-----------------------------------------------------------------------------
(* Diagnostics are displayed in the order of their texts.  What is made of *)
(* a text that grows comes in that order: first what is displayed, then    *)
(* what is posted, what is in the pipe, what the server knows, and what it *)
(* will know of the messages that it has not read.                         *)
Coming == posted \o toClient
About(a, d) == a.method = "publishDiagnostics" /\ a.doc = d
TextsInOrder(q, d) ==
  \A i, j \in 1..Len(q) : i < j /\ About(q[i], d) /\ About(q[j], d) => q[i].text <= q[j].text
Ahead(s, q, d) ==
  \A seen \in [0..Len(q) -> Knowledge] : Path(seen, s, q, d) =>
    \A i, j \in 0..Len(q) : i <= j /\ seen[i].open /\ seen[j].open => seen[i].text <= seen[j].text
GrowsTo(s, q, d, x) ==
  /\ Ahead(s, q, d)
  /\ \A p \in Seen(s, q, d) : p[2].open => p[2].text <= x
  /\ \E t \in Knowledge : Leads(s, q, t, d) /\ (t.open => t.text = x)
Behind(x, d) == x <= text[d] /\ \A p \in SeenOf(d) : p[2].open => x <= p[2].text
LateOf(d) ==
  /\ sent[d] # "no" => tag[d] # 0
  /\ Ahead(server[d], toServer, d)
  /\ \A p \in SeenOf(d) : p[2].open => p[2].text <= text[d]
  /\ Behind(diagnostics[d].text, d)
  /\ TextsInOrder(Coming, d)
  /\ \A a \in ElementsOf(Coming) : About(a, d) => diagnostics[d].text <= a.text /\ Behind(a.text, d)
LateInv == main = "idle" => \A d \in Docs : LateOf(d)

(* What a message does to the text that the server knows, which does not   *)
(* get older.                                                              *)
Says(m, d, x, y) ==
  /\ x \in Int /\ y \in Int /\ x <= y
  /\ \A k \in Knowledge : (k.open => k.text = x) => (After(k, m, d).open => After(k, m, d).text = y)

LEMMA TextsInOrderAppend ==
  ASSUME NEW q \in Seq(Answer), NEW a \in Answer, NEW d, TextsInOrder(q, d),
         About(a, d) => \A b \in ElementsOf(q) : About(b, d) => b.text <= a.text
  PROVE  TextsInOrder(Append(q, a), d)
<1> DEFINE n == Len(q)
           r == Append(q, a)
<1>1. n \in Nat /\ Len(r) = n + 1 /\ r[n + 1] = a /\ \A i \in 1..n : r[i] = q[i]
  BY AppendProperties, LenProperties
<1> HIDE DEF r
<1> SUFFICES ASSUME NEW i \in 1..n + 1, NEW j \in 1..n + 1, i < j, About(r[i], d), About(r[j], d)
             PROVE  r[i].text <= r[j].text
  BY <1>1 DEF TextsInOrder, r
<1>2. i \in 1..n /\ r[i] = q[i]
  BY <1>1
<1>3. CASE j = n + 1
  <2>1. q[i] \in ElementsOf(q)
    BY <1>2 DEF ElementsOf
  <2> QED   BY <1>1, <1>2, <1>3, <2>1
<1>4. CASE j # n + 1
  BY <1>1, <1>2, <1>4 DEF TextsInOrder
<1> QED   BY <1>3, <1>4

LEMMA TextsInOrderTail ==
  ASSUME NEW q \in Seq(Answer), q # <<>>, NEW d, TextsInOrder(q, d)
  PROVE  /\ TextsInOrder(Tail(q), d)
         /\ About(Head(q), d) => \A b \in ElementsOf(Tail(q)) : About(b, d) => Head(q).text <= b.text
<1> DEFINE n == Len(q)
           r == Tail(q)
<1>1. n \in Nat /\ n > 0 /\ Len(r) = n - 1 /\ Head(q) = q[1] /\ \A i \in 1..n - 1 : r[i] = q[i + 1]
  BY HeadTailProperties, LenProperties, EmptySeq
<1> HIDE DEF r
<1>2. TextsInOrder(r, d)
  <2> SUFFICES ASSUME NEW i \in 1..n - 1, NEW j \in 1..n - 1, i < j, About(r[i], d), About(r[j], d)
               PROVE  r[i].text <= r[j].text
    BY <1>1 DEF TextsInOrder
  <2>1. i + 1 \in 1..n /\ j + 1 \in 1..n /\ i + 1 < j + 1 /\ r[i] = q[i + 1] /\ r[j] = q[j + 1]
    BY <1>1
  <2> QED   BY <2>1 DEF TextsInOrder
<1>3. ASSUME About(Head(q), d), NEW b \in ElementsOf(r), About(b, d) PROVE Head(q).text <= b.text
  <2>1. PICK i \in 1..n - 1 : b = q[i + 1]
    BY <1>1, <1>3 DEF ElementsOf
  <2>2. 1 \in 1..n /\ i + 1 \in 1..n /\ 1 < i + 1
    BY <1>1
  <2> QED   BY <1>1, <1>3, <2>1, <2>2 DEF TextsInOrder
<1> QED   BY <1>2, <1>3 DEF r

(* A message is sent: the text that the server will know does not go back. *)
LEMMA GrowsAppend ==
  ASSUME NEW s, NEW q \in Seq(Message), NEW d, NEW x, NEW y, GrowsTo(s, q, d, x),
         NEW m \in Message, Says(m, d, x, y)
  PROVE  /\ GrowsTo(s, Append(q, m), d, y)
         /\ \A p \in Seen(s, Append(q, m), d) : p \in Seen(s, q, d) \/ (p[2].open => p[2].text = y)
<1>0. PICK t \in Knowledge : Leads(s, q, t, d) /\ (t.open => t.text = x)
  BY DEF GrowsTo
<1> x \in Int /\ y \in Int /\ x <= y
  BY DEF Says
<1> DEFINE n == Len(q)
           u == After(t, m, d)
<1>1. n \in Nat /\ Len(Append(q, m)) = n + 1
  BY AppendProperties, LenProperties
<1>2. u \in Knowledge /\ (u.open => u.text = y)
  BY <1>0, AfterType DEF Says
<1>3. Leads(s, Append(q, m), u, d)
  BY <1>0, LeadsAppend
<1>4. PICK old \in [0..n -> Knowledge] : Path(old, s, q, d)
  BY <1>0 DEF Leads, Path
<1>5. \A p \in Seen(s, Append(q, m), d) : p \in Seen(s, q, d) \/ p[2] = u
  BY <1>0, SeenAppend
<1>6. \A p \in Seen(s, q, d) : p[2] \in Knowledge
  BY <1>0, SeenProperties
<1>7. \A i \in 0..n : old[i].open => old[i].text <= x
  <2> SUFFICES ASSUME NEW i \in 0..n, old[i].open PROVE old[i].text <= x
    OBVIOUS
  <2>1. CASE i = 0
    <3>1. <<None, s>> \in Seen(s, q, d) /\ old[0] = s
      BY <1>0, <1>4, SeenProperties DEF Path
    <3> QED   BY <2>1, <3>1
  <2>2. CASE i # 0
    <3>1. i \in 1..n /\ q[i].id \in Int
      BY <1>1, <2>2, LenProperties, NoneOfThem
    <3>2. <<q[i].id, old[i]>> \in Seen(s, q, d)
      BY <1>4, <3>1 DEF Seen
    <3> QED   BY <3>2 DEF GrowsTo
  <2> QED   BY <2>1, <2>2
<1> HIDE DEF u
<1>8. Ahead(s, Append(q, m), d)
  <2> SUFFICES ASSUME NEW seen \in [0..n + 1 -> Knowledge], Path(seen, s, Append(q, m), d),
                      NEW i \in 0..n + 1, NEW j \in 0..n + 1, i <= j, seen[i].open, seen[j].open
               PROVE  seen[i].text <= seen[j].text
    BY <1>1 DEF Ahead
  <2>1. seen[n + 1] = u /\ \A k \in 0..n : seen[k] = old[k]
    BY <1>0, <1>4, PathAppend DEF u
  <2>2. seen[i].text \in Int /\ seen[j].text \in Int
    <3>1. seen[i] \in Knowledge /\ seen[j] \in Knowledge
      OBVIOUS
    <3> QED   BY <3>1, BoundsAreNat DEF Knowledge, None
  <2> HIDE DEF n
  <2>3. CASE j \in 0..n
    <3>1. i \in 0..n
      BY <1>1, <2>3
    <3> QED   BY <1>4, <2>1, <2>3, <3>1 DEF GrowsTo, Ahead, n
  <2>4. CASE j = n + 1 /\ i = n + 1
    BY <2>2, <2>4
  <2>5. CASE j = n + 1 /\ i \in 0..n
    <3>1. seen[j].text = y /\ seen[i].text <= x
      BY <1>2, <1>7, <2>1, <2>5
    <3> QED   BY <2>2, <3>1
  <2> QED   BY <1>1, <2>3, <2>4, <2>5
<1>9. \A p \in Seen(s, Append(q, m), d) : p[2].open => p[2].text <= y
  <2> SUFFICES ASSUME NEW p \in Seen(s, Append(q, m), d), p[2].open PROVE p[2].text <= y
    OBVIOUS
  <2>1. CASE p[2] = u
    BY <1>2, <2>1
  <2>2. CASE p \in Seen(s, q, d)
    <3>1. p[2].text \in Int /\ p[2].text <= x
      BY <1>6, <2>2, BoundsAreNat DEF GrowsTo, Knowledge, None
    <3> QED   BY <3>1
  <2> QED   BY <1>5, <2>1, <2>2
<1> QED   BY <1>2, <1>3, <1>5, <1>8, <1>9 DEF GrowsTo

(* A message is handled: what the server knows is not of a later text than *)
(* what it will know.                                                      *)
LEMMA AheadTail ==
  ASSUME NEW s, NEW q \in Seq(Message), q # <<>>, NEW t, NEW d, Leads(s, q, t, d),
         NEW k, k = After(s, Head(q), d), Ahead(s, q, d)
  PROVE  /\ Ahead(k, Tail(q), d)
         /\ \A p \in Seen(k, Tail(q), d) : k.open /\ p[2].open => k.text <= p[2].text
<1> DEFINE n == Len(q)
           r == Tail(q)
<1>1. /\ n \in Nat /\ n > 0 /\ Len(r) = n - 1 /\ r \in Seq(Message)
  BY HeadTailProperties, LenProperties, EmptySeq
<1>2. PICK old \in [0..n -> Knowledge] : Path(old, s, q, d)
  BY DEF Leads, Path
<1> HIDE DEF n, r
<1>3. ASSUME NEW seen \in [0..n - 1 -> Knowledge], Path(seen, k, r, d),
             NEW i \in 0..n - 1, NEW j \in 0..n - 1, i <= j, seen[i].open, seen[j].open
      PROVE  seen[i].text <= seen[j].text
  <2>1. \A l \in 0..n - 1 : seen[l] = old[l + 1]
    BY <1>2, <1>3, PathTail DEF n, r
  <2>2. i + 1 \in 0..n /\ j + 1 \in 0..n /\ i + 1 <= j + 1
    BY <1>1, <1>3
  <2> QED   BY <1>2, <1>3, <2>1, <2>2 DEF Ahead, n
<1>4. Ahead(k, r, d)
  BY <1>1, <1>3 DEF Ahead
<1>5. ASSUME NEW p \in Seen(k, r, d), k.open, p[2].open PROVE k.text <= p[2].text
  <2>1. PICK seen \in [0..n - 1 -> Knowledge] :
          /\ Path(seen, k, r, d)
          /\ p = <<None, k>> \/ \E i \in 1..n - 1 : p = <<r[i].id, seen[i]>>
    BY <1>1, <1>5 DEF Seen
  <2>2. seen[0] = k /\ 0 \in 0..n - 1
    BY <1>1, <2>1 DEF Path
  <2>3. \E j \in 0..n - 1 : p[2] = seen[j]
    <3>1. \A i \in 1..n - 1 : i \in 0..n - 1
      BY <1>1
    <3> QED   BY <2>1, <2>2, <3>1
  <2>4. PICK j \in 0..n - 1 : p[2] = seen[j]
    BY <2>3
  <2>5. 0 <= j /\ seen[0].open /\ seen[j].open
    BY <1>1, <1>5, <2>2, <2>4
  <2>6. seen[0].text <= seen[j].text
    BY <1>3, <2>1, <2>2, <2>4, <2>5
  <2> QED   BY <2>2, <2>4, <2>6
<1> QED   BY <1>4, <1>5 DEF r

(* Messages that do not concern the document, or that say its text.        *)
LEMMA WhatMessagesSay ==
  ASSUME NEW m \in Message, NEW d \in Docs, NEW x \in Int
  PROVE  /\ m.doc # d \/ m.id # None => Says(m, d, x, x)
         /\ m.doc = d /\ m.id = None /\ m.method = "didOpen" /\ x <= m.text => Says(m, d, x, m.text)
         /\ m.doc = d /\ m.id = None /\ m.method = "didClose" => Says(m, d, x, x)
         /\ \A n \in Nat : /\ m.doc = d /\ m.id = None /\ m.method = "didChange"
                           /\ m.changes = [i \in 1..n |-> x + i]
                           => Says(m, d, x, x + n)
<1>1. m.doc # d \/ m.id # None => Says(m, d, x, x)
  BY DEF Says, After
<1>2. m.doc = d /\ m.id = None /\ m.method = "didOpen" /\ x <= m.text => Says(m, d, x, m.text)
  <2>1. m.text \in Int
    BY BoundsAreNat DEF Message
  <2> QED   BY <2>1 DEF Says, After, Understood, Opened
<1>3. m.doc = d /\ m.id = None /\ m.method = "didClose" => Says(m, d, x, x)
  BY DEF Says, After, Understood, Closed
<1>4. ASSUME NEW n \in Nat, m.doc = d, m.id = None, m.method = "didChange", m.changes = [i \in 1..n |-> x + i]
      PROVE  Says(m, d, x, x + n)
  <2> SUFFICES ASSUME NEW k \in Knowledge, k.open => k.text = x, After(k, m, d).open
               PROVE  After(k, m, d).text = x + n
    BY DEF Says
  <2>1. Len(m.changes) = n
    BY <1>4
  <2>2. CASE k.open
    <3>1. After(k, m, d) = Changed(k, m) /\ k.text = x
      BY <1>4, <2>2 DEF After, Understood
    <3> QED   BY <1>4, <2>1, <3>1 DEF Changed, Knowledge
  <2>3. CASE ~k.open
    BY <1>4, <2>3 DEF After, Understood, Closed
  <2> QED   BY <2>2, <2>3
<1> QED   BY <1>1, <1>2, <1>3, <1>4

(* The main thread sends nothing, a message, or two messages, after which  *)
(* the server will know the text of the document.                          *)
SaysText(q, d) ==
  \/ q = toServer
  \/ \E m \in Message : q = Append(toServer, m) /\ Says(m, d, text[d], text'[d])
  \/ \E m, n \in Message : /\ q = Append(Append(toServer, m), n)
                           /\ Says(m, d, text[d], text'[d]) /\ Says(n, d, text'[d], text'[d])

LEMMA AheadSend ==
  ASSUME LastInv, main = "idle", NEW d \in Docs, LateOf(d), NEW q, SaysText(q, d),
         text'[d] \in Int, text[d] <= text'[d]
  PROVE  /\ Ahead(server[d], q, d)
         /\ \A p \in Seen(server[d], q, d) :
              p[2].open => p[2].text <= text'[d] /\ (p \in SeenOf(d) \/ p[2].text = text'[d])
         /\ q \in Seq(Message) /\ \A p \in Seen(server[d], q, d) : p[2] \in Knowledge
<1>1. toServer \in Seq(Message) /\ text[d] \in Int
  BY UnderWayTypes, BoundsAreNat DEF LastInv, ClientInv, DocumentsInv
<1>2. GrowsTo(server[d], toServer, d, text[d])
  <2>1. PICK t \in Knowledge :
          /\ Leads(server[d], toServer, t, d)
          /\ t.open => sent[d] # "no"
          /\ tag[d] # 0 /\ sent[d] # "no" => t.text = text[d]
    BY EndIsSeen DEF LastInv
  <2>2. t.open => t.text = text[d]
    BY <2>1 DEF LateOf
  <2> QED   BY <2>1, <2>2 DEF LateOf, GrowsTo, SeenOf
<1>3. \A p \in SeenOf(d) : p[2].open => p[2].text <= text'[d]
  <2> SUFFICES ASSUME NEW p \in SeenOf(d), p[2].open PROVE p[2].text <= text'[d]
    OBVIOUS
  <2>1. p[2] \in Knowledge
    BY <1>1, <1>2, SeenProperties DEF SeenOf, GrowsTo
  <2>2. p[2].text \in Int
    BY <2>1, BoundsAreNat DEF Knowledge, None
  <2> QED   BY <1>1, <2>2 DEF LateOf
<1>4. ASSUME q = toServer
      PROVE  /\ Ahead(server[d], q, d)
             /\ \A p \in Seen(server[d], q, d) : p[2].open => p[2].text <= text'[d] /\ p \in SeenOf(d)
  BY <1>3, <1>4 DEF SeenOf, LateOf
<1>5. ASSUME NEW m \in Message, Says(m, d, text[d], text'[d])
      PROVE  /\ GrowsTo(server[d], Append(toServer, m), d, text'[d])
             /\ \A p \in Seen(server[d], Append(toServer, m), d) : p \in SeenOf(d) \/ (p[2].open => p[2].text = text'[d])
  <2>1. ASSUME NEW s, NEW q_0 \in Seq(Message), NEW x, NEW y, GrowsTo(s, q_0, d, x), Says(m, d, x, y)
        PROVE  /\ GrowsTo(s, Append(q_0, m), d, y)
               /\ \A p \in Seen(s, Append(q_0, m), d) : p \in Seen(s, q_0, d) \/ (p[2].open => p[2].text = y)
    BY <2>1, GrowsAppend
  <2> QED   BY <1>1, <1>2, <1>5, <2>1 DEF SeenOf
<1>6. ASSUME NEW m \in Message, NEW n \in Message, q = Append(Append(toServer, m), n),
             Says(m, d, text[d], text'[d]), Says(n, d, text'[d], text'[d])
      PROVE  /\ GrowsTo(server[d], q, d, text'[d])
             /\ \A p \in Seen(server[d], q, d) : p \in SeenOf(d) \/ (p[2].open => p[2].text = text'[d])
  <2> DEFINE r == Append(toServer, m)
  <2>1. r \in Seq(Message)
    BY <1>1, AppendProperties
  <2>2. /\ GrowsTo(server[d], r, d, text'[d])
        /\ \A p \in Seen(server[d], r, d) : p \in SeenOf(d) \/ (p[2].open => p[2].text = text'[d])
    BY <1>5, <1>6
  <2> HIDE DEF r
  <2>3. /\ GrowsTo(server[d], Append(r, n), d, text'[d])
        /\ \A p \in Seen(server[d], Append(r, n), d) :
             p \in Seen(server[d], r, d) \/ (p[2].open => p[2].text = text'[d])
    BY <1>6, <2>1, <2>2, GrowsAppend
  <2> QED   BY <1>6, <2>2, <2>3 DEF r
<1>7. /\ Ahead(server[d], q, d)
      /\ \A p \in Seen(server[d], q, d) :
           p[2].open => p[2].text <= text'[d] /\ (p \in SeenOf(d) \/ p[2].text = text'[d])
  BY <1>4, <1>5, <1>6 DEF SaysText, GrowsTo
<1>8. q \in Seq(Message)
  BY <1>1, AppendProperties DEF SaysText
<1>9. \E t : Leads(server[d], q, t, d)
  BY <1>2, <1>5, <1>6 DEF SaysText, GrowsTo
<1>10. \A p \in Seen(server[d], q, d) : p[2] \in Knowledge
  BY <1>8, <1>9, SeenProperties
<1> QED   BY <1>7, <1>8, <1>10

(* The main thread leaves what comes to it, or takes the first of it: what *)
(* is displayed, coming and known stays in order.                          *)
LEMMA OrderOfTextsIsKept ==
  ASSUME LastInv, DiagnosticsInv, main = "idle", NEW d \in Docs, LateOf(d),
         server' = server, SaysText(toServer', d), text'[d] \in Nat, text[d] <= text'[d],
         sent'[d] # "no" => tag'[d] # 0,
         TextsInOrder(Coming', d), ElementsOf(Coming') \subseteq ElementsOf(Coming), ElementsOf(Coming) \subseteq Answer,
         \/ diagnostics'[d].text = None \/ diagnostics'[d] = diagnostics[d]
         \/ /\ \E a \in ElementsOf(Coming) : About(a, d) /\ diagnostics'[d].text = a.text
            /\ \A b \in ElementsOf(Coming') : About(b, d) => diagnostics'[d].text <= b.text
  PROVE  LateOf(d)'
<1>1. /\ Ahead(server[d], toServer', d)
      /\ \A p \in Seen(server[d], toServer', d) : p[2] \in Knowledge
      /\ \A p \in Seen(server[d], toServer', d) :
           p[2].open => p[2].text <= text'[d] /\ (p \in SeenOf(d) \/ p[2].text = text'[d])
  BY AheadSend
<1>2. /\ Ahead(server[d], toServer, d)'
      /\ \A p \in SeenOf(d)' : p[2].open => /\ p[2].text <= text'[d] /\ p[2].text \in Int /\ p[2].text >= None
                                            /\ p \in SeenOf(d) \/ p[2].text = text'[d]
  <2>1. Seen(server[d], toServer', d) = SeenOf(d)' /\ (Ahead(server[d], toServer, d)' <=> Ahead(server[d], toServer', d))
    BY DEF SeenOf
  <2>2. \A k \in Knowledge : k.text \in Int /\ k.text >= None
    BY BoundsAreNat DEF Knowledge, None
  <2> QED   BY <1>1, <2>1, <2>2
<1>3. text[d] \in Nat /\ diagnostics[d].text \in Int /\ diagnostics[d].text >= None
  BY BoundsAreNat DEF LastInv, ClientInv, DocumentsInv, DiagnosticsInv, None
<1>4. \A a \in ElementsOf(Coming) : a.text \in Int /\ a.text >= None
  BY BoundsAreNat DEF Answer, None
<1>5. ASSUME NEW x \in Int, Behind(x, d) PROVE Behind(x, d)'
  <2>1. x <= text'[d]
    BY <1>3, <1>5 DEF Behind
  <2>2. ASSUME NEW p \in SeenOf(d)', p[2].open PROVE x <= p[2].text
    BY <1>2, <1>5, <2>1, <2>2 DEF Behind
  <2> QED   BY <2>1, <2>2 DEF Behind
<1>6. Behind(None, d)'
  BY <1>2 DEF Behind, None
<1>7. Behind(diagnostics[d].text, d)'
  <2>1. CASE diagnostics'[d].text = None
    BY <1>6, <2>1 DEF Behind
  <2>2. CASE diagnostics'[d] = diagnostics[d]
    BY <1>3, <1>5, <2>2 DEF LateOf, Behind
  <2>3. ASSUME NEW a \in ElementsOf(Coming), About(a, d), diagnostics'[d].text = a.text
        PROVE  Behind(diagnostics[d].text, d)'
    BY <1>4, <1>5, <2>3 DEF LateOf, Behind
  <2> QED   BY <2>1, <2>2, <2>3
<1>8. ASSUME NEW a \in ElementsOf(Coming'), About(a, d) PROVE diagnostics'[d].text <= a.text /\ Behind(a.text, d)'
  <2>1. a \in ElementsOf(Coming) /\ a.text \in Int /\ a.text >= None
    BY <1>4, <1>8
  <2>2. diagnostics[d].text <= a.text /\ Behind(a.text, d)
    BY <1>8, <2>1 DEF LateOf
  <2>3. diagnostics'[d].text <= a.text
    BY <1>8, <2>1, <2>2 DEF None
  <2> QED   BY <1>5, <2>1, <2>2, <2>3
<1>9. \A a \in ElementsOf(Coming)' : About(a, d) => diagnostics'[d].text <= a.text /\ Behind(a.text, d)'
  BY <1>8
<1>10. \A p \in SeenOf(d)' : p[2].open => p[2].text <= text'[d]
  BY <1>2
<1> QED   BY <1>2, <1>7, <1>9, <1>10 DEF LateOf

(* What comes to the main thread.                                          *)
LEMMA ComingTypes ==
  ASSUME LastInv, main = "idle"
  PROVE  /\ posted \in Seq(Answer) /\ toClient \in Seq(Answer) /\ Coming \in Seq(Answer)
         /\ ElementsOf(Coming) \subseteq Answer
<1>1. posted \in Seq(Answer) /\ toClient \in Seq(Answer)
  BY UnderWayTypes DEF LastInv
<1>2. Coming \in Seq(Answer)
  BY <1>1, ConcatProperties DEF Coming
<1>3. ElementsOf(Coming) \subseteq Answer
  BY <1>2, LenProperties DEF ElementsOf
<1> QED   BY <1>1, <1>2, <1>3

(* A callback takes the first of what comes.                               *)
LEMMA FirstIsTaken ==
  ASSUME LastInv, main = "idle", posted # <<>>, posted' = Tail(posted), toClient' = toClient
  PROVE  /\ Coming # <<>> /\ Coming' = Tail(Coming) /\ Head(Coming) = Head(posted)
         /\ Head(posted) \in ElementsOf(Coming) /\ ElementsOf(Coming') \subseteq ElementsOf(Coming)
         /\ \A d : TextsInOrder(Coming, d) =>
              /\ TextsInOrder(Coming', d)
              /\ About(Head(posted), d) => \A b \in ElementsOf(Coming') : About(b, d) => Head(posted).text <= b.text
<1>1. posted \in Seq(Answer) /\ toClient \in Seq(Answer) /\ Coming \in Seq(Answer)
  BY ComingTypes
<1>2. Coming # <<>> /\ Coming' = Tail(Coming) /\ Head(Coming) = Head(posted)
  BY <1>1, TailOfConcat DEF Coming
<1>3. Head(Coming) \in ElementsOf(Coming) /\ ElementsOf(Tail(Coming)) \subseteq ElementsOf(Coming)
  BY <1>1, <1>2, IdsTail, AnswerIds
<1>4. ASSUME NEW d, TextsInOrder(Coming, d)
      PROVE  /\ TextsInOrder(Tail(Coming), d)
             /\ About(Head(Coming), d) => \A b \in ElementsOf(Tail(Coming)) : About(b, d) => Head(Coming).text <= b.text
  BY <1>1, <1>2, <1>4, TextsInOrderTail
<1> QED   BY <1>2, <1>3, <1>4

(* The actions of the user.                                                *)
LEMMA UserSays ==
  ASSUME LastInv, ClientInv', LateInv, main = "idle", main' = "idle", NEW d \in Docs,
         \/ Open(d) \/ ChangeLanguage(d) \/ Close(d) \/ ShowTooltip(d) \/ DestroyTooltip(d)
         \/ \E n \in 1..MaxChanges : Edit(d, n),
         NEW e \in Docs
  PROVE  /\ SaysText(toServer', e) /\ text'[e] \in Nat /\ text[e] <= text'[e]
         /\ sent'[e] # "no" => tag'[e] # 0
         /\ diagnostics'[e].text = None \/ diagnostics'[e] = diagnostics[e]
         /\ UNCHANGED <<posted, toClient, server>>
<1>1. /\ toServer \in Seq(Message) /\ nextId \in Nat /\ nextId # None
      /\ text[e] \in Nat /\ text'[e] \in Nat /\ text'[d] \in Nat
      /\ tag \in [Docs -> 0..MaxOpens] /\ sent \in [Docs -> {"no", "opened", "asked"}] /\ opens \in [Docs -> 0..MaxOpens]
      /\ text \in [Docs -> 0..MaxText]
      /\ tag'[d] \in 0..MaxOpens /\ version'[d] \in 0..MaxVersion /\ text'[d] \in 0..MaxText
      /\ sent[e] # "no" => tag[e] # 0
  <2>1. toServer \in Seq(Message) /\ nextId \in Nat
    BY UnderWayTypes DEF LastInv
  <2>2. DocumentsInv /\ DocumentsInv' /\ TypeOK /\ TypeOK'
    BY DEF LastInv, ClientInv
  <2>3. LateOf(e)
    BY DEF LateInv
  <2>4. text[e] \in Nat /\ text'[e] \in Nat /\ text'[d] \in Nat
    BY <2>2, BoundsAreNat DEF DocumentsInv
  <2>5. tag'[d] \in 0..MaxOpens /\ version'[d] \in 0..MaxVersion /\ text'[d] \in 0..MaxText
    BY <2>2 DEF DocumentsInv, TypeOK
  <2>6. nextId # None /\ (sent[e] # "no" => tag[e] # 0)
    BY <2>1, <2>3 DEF LateOf, None
  <2>7. tag \in [Docs -> 0..MaxOpens] /\ sent \in [Docs -> {"no", "opened", "asked"}]
    BY <2>2 DEF TypeOK
  <2> QED   BY <2>1, <2>2, <2>4, <2>5, <2>6, <2>7 DEF DocumentsInv
<1>2. /\ Notification("didOpen", d) \in Message /\ Notification("didClose", d) \in Message
      /\ \A id \in Int : Request("semanticTokens", id, d) \in Message /\ Request("hover", id, d) \in Message
  BY <1>1, NotificationIsMessage DEF Request
<1>3. /\ \A id : Request("semanticTokens", id, d).id = id /\ Request("hover", id, d).id = id
      /\ \A method : /\ Notification(method, d).doc = d /\ Notification(method, d).id = None
                     /\ Notification(method, d).method = method /\ Notification(method, d).text = text'[d]
  BY DEF Request, Notification
<1>4. CASE Open(d)
  <2>1. /\ tag' = [tag EXCEPT ![d] = opens[d] + 1]
        /\ sent' = [sent EXCEPT ![d] = IF state = "ready" THEN "asked" ELSE "no"]
        /\ UNCHANGED <<posted, text, diagnostics, toClient, server>>
    BY <1>4 DEF Open
  <2>2. sent'[e] # "no" => tag'[e] # 0
    <3>1. opens[d] + 1 # 0
      BY <1>1, BoundsAreNat
    <3> QED   BY <1>1, <2>1, <3>1
  <2>3. SaysText(toServer', e)
    <3>1. CASE state # "ready"
      BY <1>4, <3>1 DEF Open, SaysText
    <3>2. CASE state = "ready"
      <4> DEFINE m == Notification("didOpen", d)
                 r == Request("semanticTokens", nextId, d)
      <4>1. toServer' = toServer \o (<<m>> \o <<r>>)
        BY <1>4, <3>2 DEF Open, SendRequest, Send
      <4>2. m \in Message /\ r \in Message /\ r.id # None
        BY <1>1, <1>2, <1>3
      <4>3. m.doc = d /\ m.id = None /\ m.method = "didOpen" /\ m.text = text'[d]
        BY <1>3
      <4> HIDE DEF m, r
      <4>4. toServer' = Append(Append(toServer, m), r)
        BY <1>1, <4>1, <4>2, TwoAreAppended
      <4>5. Says(m, e, text[e], text'[e]) /\ Says(r, e, text'[e], text'[e])
        <5>1. text'[e] = text[e]
          BY <2>1
        <5> QED   BY <1>1, <4>2, <4>3, <5>1, WhatMessagesSay
      <4> QED   BY <4>2, <4>4, <4>5 DEF SaysText
    <3> QED   BY <3>1, <3>2
  <2> QED   BY <1>1, <2>1, <2>2, <2>3
<1>5. CASE ChangeLanguage(d)
  <2> DEFINE m == Notification("didClose", d)
             r == Notification("didOpen", d)
  <2>1. /\ tag[d] # 0 /\ sent' = [sent EXCEPT ![d] = "opened"]
        /\ UNCHANGED <<posted, tag, text, diagnostics, toClient, server>>
        /\ toServer' = toServer \o <<m, r>>
    BY <1>5 DEF ChangeLanguage, Send
  <2>2. sent'[e] # "no" => tag'[e] # 0
    BY <1>1, <2>1
  <2>3. m \in Message /\ r \in Message
    BY <1>2
  <2>4. /\ m.doc = d /\ m.id = None /\ m.method = "didClose"
        /\ r.doc = d /\ r.id = None /\ r.method = "didOpen" /\ r.text = text'[d]
    BY <1>3
  <2> HIDE DEF m, r
  <2>5. toServer' = Append(Append(toServer, m), r)
    <3>1. toServer' = toServer \o (<<m>> \o <<r>>)
      BY <2>1, <2>3, PairIsConcat
    <3> QED   BY <1>1, <2>3, <3>1, TwoAreAppended
  <2>6. Says(m, e, text[e], text'[e]) /\ Says(r, e, text'[e], text'[e])
    <3>1. text'[e] = text[e]
      BY <2>1
    <3> QED   BY <1>1, <2>3, <2>4, <3>1, WhatMessagesSay
  <2>7. SaysText(toServer', e)
    BY <2>3, <2>5, <2>6 DEF SaysText
  <2>8. text'[e] = text[e] /\ diagnostics'[e] = diagnostics[e] /\ UNCHANGED <<posted, toClient, server>>
    BY <2>1
  <2>9. text[e] <= text'[e]
    BY <1>1, <2>8
  <2> QED   BY <1>1, <2>2, <2>7, <2>8, <2>9
<1>6. CASE Close(d)
  <2> DEFINE m == Notification("didClose", d)
  <2>1. CancelHover({d}) /\ DestroyTags({d}) /\ toServer' = toServer \o <<m>> /\ UNCHANGED <<posted, toClient, server>>
    BY <1>6 DEF Close, AssertionFails, Send
  <2>2. /\ tag'[e] = (IF e = d THEN 0 ELSE tag[e]) /\ sent'[e] = (IF e = d THEN "no" ELSE sent[e])
        /\ diagnostics'[e] = (IF e = d THEN [text |-> None, tag |-> 0] ELSE diagnostics[e])
        /\ text'[e] = text[e]
    BY <2>1 DEF DestroyTags
  <2>3. m \in Message /\ m.doc = d /\ m.method = "didClose" /\ m.id = None
    BY <1>2, <1>3
  <2> HIDE DEF m
  <2>4. toServer' = Append(toServer, m)
    BY <1>1, <2>1, <2>3, TwoAreAppended
  <2>5. Says(m, e, text[e], text'[e])
    BY <1>1, <2>2, <2>3, WhatMessagesSay
  <2> QED   BY <1>1, <2>1, <2>2, <2>3, <2>4, <2>5 DEF SaysText
<1>7. CASE ShowTooltip(d)
  <2> DEFINE r == Request("hover", nextId, d)
  <2>1. toServer' = toServer \o (<<>> \o <<r>>) /\ UNCHANGED <<posted, tag, sent, text, diagnostics, toClient, server>>
    BY <1>7 DEF ShowTooltip, SendRequest, Send
  <2>2. r \in Message /\ r.id # None
    BY <1>1, <1>2, <1>3
  <2> HIDE DEF r
  <2>3. toServer' = Append(toServer, r)
    <3>1. <<>> \o <<r>> = <<r>>
      BY <2>2
    <3> QED   BY <1>1, <2>1, <2>2, <3>1, TwoAreAppended
  <2>4. Says(r, e, text[e], text'[e])
    BY <1>1, <2>1, <2>2, WhatMessagesSay
  <2> QED   BY <1>1, <2>1, <2>2, <2>3, <2>4 DEF SaysText
<1>8. CASE DestroyTooltip(d)
  BY <1>1, <1>8 DEF DestroyTooltip, Crash, SaysText
<1>9. ASSUME NEW n \in 1..MaxChanges, Edit(d, n)
      PROVE  /\ SaysText(toServer', e) /\ text'[e] \in Nat /\ text[e] <= text'[e]
             /\ sent'[e] # "no" => tag'[e] # 0
             /\ diagnostics'[e].text = None \/ diagnostics'[e] = diagnostics[e]
             /\ UNCHANGED <<posted, toClient, server>>
  <2> DEFINE made == [i \in 1..n |-> text[d] + i]
  <2>1. /\ tag[d] # 0 /\ text' = [text EXCEPT ![d] = @ + n] /\ text[d] + n <= MaxText
        /\ UNCHANGED <<posted, tag, diagnostics, toClient, server>>
    BY <1>9 DEF Edit
  <2>2. /\ n \in Nat /\ text'[e] = (IF e = d THEN text[e] + n ELSE text[e]) /\ text[e] <= text'[e]
    BY <1>1, <2>1, BoundsAreNat
  <2>3. sent'[e] # "no" => tag'[e] # 0
    <3>1. sent' = [sent EXCEPT ![d] = IF @ = "no" THEN "no" ELSE "asked"] \/ sent' = sent
      BY <1>9 DEF Edit
    <3> QED   BY <1>1, <2>1, <3>1
  <2>4. SaysText(toServer', e)
    <3>1. CASE state # "ready"
      BY <1>9, <3>1 DEF Edit, SaysText
    <3>2. CASE state = "ready"
      <4> DEFINE m == DidChange(d, made)
                 r == Request("semanticTokens", nextId, d)
      <4>1. toServer' = toServer \o (<<m>> \o <<r>>)
        BY <1>9, <3>2 DEF Edit, SendRequest, Send
      <4>2. r \in Message /\ r.id # None
        BY <1>1, <1>2, <1>3
      <4>3. m \in Message /\ m.doc = d /\ m.id = None /\ m.method = "didChange" /\ m.changes = made
        <5>1. made \in Seq(1..MaxText)
          <6>1. text[d] \in Nat
            BY <1>1, BoundsAreNat
          <6>2. n \in Nat /\ \A i \in 1..n : text[d] + i \in 1..MaxText
            BY <2>1, <2>2, <6>1, BoundsAreNat
          <6> QED   BY <6>2
        <5> HIDE DEF made
        <5>2. m \in Message
          BY <1>1, <5>1, NotificationIsMessage DEF DidChange
        <5> QED   BY <5>2 DEF DidChange, Notification
      <4> HIDE DEF m, r
      <4>4. toServer' = Append(Append(toServer, m), r)
        BY <1>1, <4>1, <4>2, <4>3, TwoAreAppended
      <4>5. Says(m, e, text[e], text'[e])
        <5>1. CASE e = d
          <6>1. m.changes = [i \in 1..n |-> text[e] + i] /\ text'[e] = text[e] + n /\ text[e] \in Int
            BY <1>1, <2>2, <4>3, <5>1
          <6> HIDE DEF made
          <6> QED   BY <2>2, <4>3, <5>1, <6>1, WhatMessagesSay
        <5>2. CASE e # d
          <6>1. text'[e] = text[e] /\ text[e] \in Int
            BY <1>1, <2>2, <5>2
          <6> QED   BY <4>3, <5>2, <6>1, WhatMessagesSay
        <5> QED   BY <5>1, <5>2
      <4>6. Says(r, e, text'[e], text'[e])
        BY <1>1, <4>2, WhatMessagesSay
      <4> QED   BY <4>2, <4>3, <4>4, <4>5, <4>6 DEF SaysText
    <3> QED   BY <3>1, <3>2
  <2> QED   BY <1>1, <2>1, <2>2, <2>3, <2>4
<1> QED   BY <1>4, <1>5, <1>6, <1>7, <1>8, <1>9

(* What the user does, and the callbacks other than that of diagnostics.   *)
LEMMA UserKeepsOrderOfTexts ==
  ASSUME LastInv, DiagnosticsInv, LateInv, ClientInv', User
  PROVE  LateInv'
<1> SUFFICES ASSUME main' = "idle", NEW e \in Docs PROVE LateOf(e)'
  BY DEF LateInv
<1>1. ~ Disable
  BY DEF Disable, AssertionFails
<1>2. PICK d \in Docs :
        \/ Open(d) \/ ChangeLanguage(d) \/ Close(d) \/ ShowTooltip(d) \/ DestroyTooltip(d)
        \/ \E n \in 1..MaxChanges : Edit(d, n)
  BY <1>1 DEF User
<1>3. main = "idle"
  BY <1>2 DEF Open, ChangeLanguage, Close, ShowTooltip, DestroyTooltip, Edit, Crash
<1>4. /\ SaysText(toServer', e) /\ text'[e] \in Nat /\ text[e] <= text'[e]
      /\ sent'[e] # "no" => tag'[e] # 0
      /\ diagnostics'[e].text = None \/ diagnostics'[e] = diagnostics[e]
      /\ UNCHANGED <<posted, toClient, server>>
  BY <1>2, <1>3, UserSays
<1>5. LateOf(e) /\ Coming' = Coming
  BY <1>3, <1>4 DEF LateInv, Coming
<1>6. TextsInOrder(Coming', e) /\ ElementsOf(Coming') \subseteq ElementsOf(Coming) /\ ElementsOf(Coming) \subseteq Answer
  BY <1>3, <1>5, ComingTypes DEF LateOf
<1> QED   BY <1>3, <1>4, <1>5, <1>6, OrderOfTextsIsKept

LEMMA CallbackKeepsOrderOfTexts ==
  ASSUME LastInv, DiagnosticsInv, LateInv, Callback
  PROVE  LateInv'
<1> SUFFICES ASSUME main' = "idle", NEW e \in Docs PROVE LateOf(e)'
  BY DEF LateInv
<1>1. OnPublishDiagnostics \/ \E h \in handlers : OnInitialize(h) \/ OnSemanticTokens(h) \/ OnHover(h) \/ OnCancelled(h)
  BY DEF Callback, CallbackDangling, OnSemanticTokensDangling, Crash
<1>2. /\ main = "idle" /\ posted # <<>> /\ posted' = Tail(posted)
      /\ UNCHANGED <<tag, sent, text, toClient, server>>
  BY <1>1 DEF OnPublishDiagnostics, OnInitialize, OnSemanticTokens, OnHover, OnCancelled, TakesReply, TakeReply
<1>3. /\ LateOf(e) /\ TextsInOrder(Coming, e) /\ (sent'[e] # "no" => tag'[e] # 0)
      /\ text'[e] \in Nat /\ text'[e] = text[e] /\ text[e] <= text'[e] /\ toServer \in Seq(Message)
  <2>1. LateOf(e) /\ text[e] \in Nat
    BY <1>2, BoundsAreNat DEF LateInv, LastInv, ClientInv, DocumentsInv
  <2> QED   BY <1>2, <2>1, UnderWayTypes DEF LateOf, LastInv
<1>4. /\ TextsInOrder(Coming', e) /\ Head(posted) \in ElementsOf(Coming) /\ ElementsOf(Coming') \subseteq ElementsOf(Coming)
      /\ About(Head(posted), e) => \A b \in ElementsOf(Coming') : About(b, e) => Head(posted).text <= b.text
  BY <1>2, <1>3, FirstIsTaken
<1>5. SaysText(toServer', e)
  <2>1. toServer' = toServer \/ toServer' = toServer \o <<Bare("initialized", None)>>
    BY <1>1 DEF OnPublishDiagnostics, OnInitialize, OnSemanticTokens, OnHover, OnCancelled, Send
  <2>2. CASE toServer' = toServer
    BY <2>2 DEF SaysText
  <2>3. CASE toServer' = toServer \o <<Bare("initialized", None)>>
    <3> DEFINE m == Bare("initialized", None)
    <3>1. m \in Message /\ m.doc # e
      BY NoneOfThem, BoundsAreNat DEF Bare, Message, None
    <3> HIDE DEF m
    <3>2. toServer' = Append(toServer, m)
      BY <1>3, <2>3, <3>1, TwoAreAppended DEF m
    <3>3. Says(m, e, text[e], text'[e])
      BY <1>3, <3>1, WhatMessagesSay
    <3> QED   BY <3>1, <3>2, <3>3 DEF SaysText
  <2> QED   BY <2>1, <2>2, <2>3
<1>6. \/ diagnostics'[e] = diagnostics[e]
      \/ About(Head(posted), e) /\ diagnostics'[e].text = Head(posted).text
  <2>1. OnPublishDiagnostics \/ diagnostics' = diagnostics
    BY <1>1 DEF OnInitialize, OnSemanticTokens, OnHover, OnCancelled, TakeReply
  <2>2. CASE OnPublishDiagnostics
    <3>1. /\ Head(posted).method = "publishDiagnostics"
          /\ diagnostics' = IF tag[Head(posted).doc] # 0 /\ Head(posted).version \in {None, version[Head(posted).doc]}
               THEN [diagnostics EXCEPT ![Head(posted).doc] = [text |-> Head(posted).text, tag |-> Head(posted).tag]]
               ELSE diagnostics
      BY <2>2 DEF OnPublishDiagnostics
    <3> QED   BY <3>1 DEF DiagnosticsInv, About
  <2> QED   BY <2>1, <2>2
<1>7. ElementsOf(Coming) \subseteq Answer
  BY <1>2, ComingTypes
<1>8. CASE diagnostics'[e] = diagnostics[e]
  BY <1>2, <1>3, <1>4, <1>5, <1>7, <1>8, OrderOfTextsIsKept
<1>9. CASE About(Head(posted), e) /\ diagnostics'[e].text = Head(posted).text
  <2>1. /\ \E a \in ElementsOf(Coming) : About(a, e) /\ diagnostics'[e].text = a.text
        /\ \A b \in ElementsOf(Coming') : About(b, e) => diagnostics'[e].text <= b.text
    BY <1>4, <1>9
  <2> QED   BY <1>2, <1>3, <1>4, <1>5, <1>7, <2>1, OrderOfTextsIsKept
<1> QED   BY <1>6, <1>8, <1>9

(* The receiver thread posts what has come.                                *)
LEMMA ReceiverKeepsOrderOfTexts ==
  ASSUME LastInv, DiagnosticsInv, LateInv, Receive
  PROVE  LateInv'
<1>1. /\ toClient # <<>> /\ toClient' = Tail(toClient)
      /\ UNCHANGED <<main, tag, sent, text, diagnostics, toServer, server>>
      /\ \/ Head(toClient).method = "reply" /\ Head(toClient).id = shutdownId
         \/ posted' = Append(posted, Head(toClient))
  BY DEF Receive, documentVars
<1> SUFFICES ASSUME main = "idle", NEW d \in Docs PROVE LateOf(d)'
  BY <1>1 DEF LateInv
<1>2. posted \in Seq(Answer) /\ toClient \in Seq(Answer)
  BY ComingTypes
<1>3. Head(toClient) \in Answers /\ Head(toClient) \in Answer /\ Tail(toClient) \in Seq(Answer)
  BY <1>1, <1>2, IdsTail, AnswerIds DEF Answers
<1>4. posted' = Append(posted, Head(toClient))
  BY <1>1, <1>3, UnderWayTypes DEF LastInv, OrderInv
<1>5. Coming' = Coming
  <2> DEFINE a == Head(toClient)
             c == Tail(toClient)
  <2>1. Append(posted, a) = posted \o <<a>> /\ <<a>> \in Seq(Answer) /\ toClient = <<a>> \o c
    <3>1. Append(posted, a) = posted \o <<a>>
      BY <1>2, <1>3, AppendIsConcat
    <3>2. <<a>> \in Seq(Answer)
      BY <1>3
    <3>3. toClient = <<a>> \o c
      <4>1. <<a>> \o c \in Seq(Answer) /\ Len(<<a>> \o c) = Len(toClient)
        BY <1>1, <1>2, <1>3, <3>2, HeadTailProperties, ConcatProperties, LenProperties, EmptySeq
      <4>2. \A i \in 1..Len(toClient) : (<<a>> \o c)[i] = toClient[i]
        BY <1>1, <1>2, <1>3, <3>2, HeadTailProperties, ConcatProperties, LenProperties, EmptySeq
      <4> HIDE DEF a, c
      <4> QED   BY <1>2, <4>1, <4>2, SeqEqual
    <3> QED   BY <3>1, <3>2, <3>3
  <2> HIDE DEF a, c
  <2>2. (posted \o <<a>>) \o c = posted \o (<<a>> \o c)
    BY <1>2, <1>3, <2>1, ConcatAssociative DEF c
  <2> QED   BY <1>1, <1>4, <2>1, <2>2 DEF Coming, a, c
<1>6. LateOf(d) /\ SeenOf(d)' = SeenOf(d) /\ (Ahead(server[d], toServer, d)' <=> Ahead(server[d], toServer, d))
  BY <1>1 DEF LateInv, SeenOf
<1>7. \A x : Behind(x, d)' <=> Behind(x, d)
  BY <1>1, <1>6 DEF Behind
<1> QED   BY <1>1, <1>5, <1>6, <1>7 DEF LateOf

(* The server handles a message, and may publish what it then knows.       *)
LEMMA ServerKeepsOrderOfTexts ==
  ASSUME LastInv, DiagnosticsInv, LateInv, Server
  PROVE  LateInv'
<1> DEFINE m == Head(toServer)
<1>1. UNCHANGED <<main, posted, tag, sent, text, diagnostics>>
  BY DEF Server, documentVars
<1> SUFFICES ASSUME main = "idle", NEW d \in Docs PROVE LateOf(d)'
  BY <1>1 DEF LateInv
<1>2. /\ toServer \in Seq(Message) /\ toServer # <<>> /\ toServer' = Tail(toServer)
      /\ server'[d] = After(server[d], m, d)
      /\ \/ toClient' = toClient
         \/ \E a \in Answer : toClient' = Append(toClient, a) /\ (Replies(m, a) \/ Publishes(m, a))
  BY ServerHandles DEF LastInv, ClientInv
<1>3. PICK k : k = server'[d]
  OBVIOUS
<1>4. LateOf(d) /\ text[d] \in Nat /\ diagnostics[d].text \in Int
  BY BoundsAreNat DEF LateInv, LastInv, ClientInv, DocumentsInv, DiagnosticsInv, None
<1>5. PICK t \in Knowledge : Leads(server[d], toServer, t, d)
  BY EndIsSeen DEF LastInv
<1>6. /\ Ahead(k, Tail(toServer), d)
      /\ \A p \in Seen(k, Tail(toServer), d) : k.open /\ p[2].open => k.text <= p[2].text
  BY <1>2, <1>3, <1>4, <1>5, AheadTail DEF LateOf
<1>7. /\ <<m.id, k>> \in Seen(server[d], toServer, d)
      /\ Seen(k, Tail(toServer), d) \subseteq Seen(server[d], toServer, d) \cup {<<None, k>>}
  BY <1>2, <1>3, <1>5, SeenTail
<1> HIDE DEF m
<1>8. /\ Ahead(server[d], toServer, d)'
      /\ \A p \in SeenOf(d)' : \E o \in SeenOf(d) : o[2] = p[2]
      /\ \A p \in SeenOf(d)' : k.open /\ p[2].open => k.text <= p[2].text
      /\ k.open => k.text <= text[d] /\ diagnostics[d].text <= k.text
                   /\ \A a \in ElementsOf(Coming) : About(a, d) => a.text <= k.text
  <2>1. SeenOf(d)' = Seen(k, Tail(toServer), d) /\ (Ahead(server[d], toServer, d)' <=> Ahead(k, Tail(toServer), d))
    BY <1>2, <1>3 DEF SeenOf
  <2>2. <<m.id, k>> \in SeenOf(d) /\ SeenOf(d)' \subseteq SeenOf(d) \cup {<<None, k>>}
    BY <1>7, <2>1 DEF SeenOf
  <2>3. k.open => k.text <= text[d] /\ diagnostics[d].text <= k.text
                  /\ \A a \in ElementsOf(Coming) : About(a, d) => a.text <= k.text
    BY <1>4, <2>2 DEF LateOf, Behind
  <2>4. \A p \in SeenOf(d)' : \E o \in SeenOf(d) : o[2] = p[2]
    BY <2>2
  <2> QED   BY <1>6, <2>1, <2>3, <2>4
<1>9. \A x : Behind(x, d) => Behind(x, d)'
  BY <1>1, <1>8 DEF Behind
<1>10. /\ posted \in Seq(Answer) /\ toClient \in Seq(Answer) /\ Coming \in Seq(Answer)
  BY ComingTypes
<1>11. CASE toClient' = toClient
  <2>1. Coming' = Coming
    BY <1>1, <1>11 DEF Coming
  <2>2. \A p \in SeenOf(d)' : p[2].open => p[2].text <= text[d]
    BY <1>4, <1>8 DEF LateOf
  <2> QED   BY <1>1, <1>4, <1>8, <1>9, <2>1, <2>2 DEF LateOf
<1>12. ASSUME NEW a \in Answer, toClient' = Append(toClient, a), Replies(m, a) \/ Publishes(m, a)
       PROVE  LateOf(d)'
  <2>1. Coming' = Append(Coming, a)
    <3>1. /\ Append(toClient, a) = toClient \o <<a>> /\ Append(posted \o toClient, a) = (posted \o toClient) \o <<a>>
          /\ <<a>> \in Seq(Answer)
      BY <1>10, AppendIsConcat DEF Coming
    <3>2. (posted \o toClient) \o <<a>> = posted \o (toClient \o <<a>>)
      BY <1>10, <3>1, ConcatAssociative
    <3> QED   BY <1>1, <1>12, <3>1, <3>2 DEF Coming
  <2>2. ElementsOf(Append(Coming, a)) = ElementsOf(Coming) \cup {a}
    BY <1>10, IdsAppend, AnswerIds
  <2>3. About(a, d) => k.open /\ a.text = k.text
    BY <1>3, <1>12 DEF About, Replies, Publishes
  <2>4. TextsInOrder(Coming', d)
    BY <1>4, <1>8, <1>10, <2>1, <2>3, TextsInOrderAppend DEF LateOf
  <2>5. About(a, d) => diagnostics[d].text <= a.text /\ Behind(a.text, d)'
    BY <1>1, <1>8, <2>3 DEF Behind
  <2>6. \A b \in ElementsOf(Coming)' : About(b, d) => diagnostics[d].text <= b.text /\ Behind(b.text, d)'
    <3>1. ElementsOf(Coming)' = ElementsOf(Coming) \cup {a}
      BY <2>1, <2>2
    <3> QED   BY <1>4, <1>9, <2>5, <3>1 DEF LateOf
  <2>7. \A p \in SeenOf(d)' : p[2].open => p[2].text <= text[d]
    BY <1>4, <1>8 DEF LateOf
  <2> QED   BY <1>1, <1>4, <1>8, <1>9, <2>4, <2>6, <2>7 DEF LateOf
<1> QED   BY <1>2, <1>11, <1>12

LEMMA InitIsInOrder == Init => LateInv
<1> SUFFICES ASSUME Init, NEW d \in Docs PROVE LateOf(d)
  BY DEF LateInv
<1> DEFINE m == Bare("initialize", 0)
<1>1. /\ posted = <<>> /\ toClient = <<>> /\ toServer = <<m>>
      /\ sent[d] = "no" /\ text[d] = 0 /\ diagnostics[d].text = None /\ server[d] = Closed
  BY DEF Init
<1>2. m.doc = None /\ None \notin Docs /\ None = -1 /\ ~ Closed.open
  BY BoundsAreNat DEF Bare, Closed, None
<1> HIDE DEF m
<1>3. Len(toServer) = 1 /\ toServer[1] = m
  BY <1>1
<1>4. \A seen : Path(seen, Closed, toServer, d) => seen[0] = Closed /\ seen[1] = Closed
  BY <1>2, <1>3 DEF Path, After
<1>5. Ahead(Closed, toServer, d) /\ \A p \in Seen(Closed, toServer, d) : ~ p[2].open
  <2>1. Ahead(Closed, toServer, d)
    BY <1>2, <1>3, <1>4 DEF Ahead
  <2>2. \A p \in Seen(Closed, toServer, d) : ~ p[2].open
    BY <1>2, <1>3, <1>4 DEF Seen
  <2> QED   BY <2>1, <2>2
<1>6. Coming = <<>> /\ Len(Coming) = 0 /\ ElementsOf(Coming) = {} /\ TextsInOrder(Coming, d)
  BY <1>1 DEF Coming, ElementsOf, TextsInOrder
<1> QED   BY <1>1, <1>2, <1>5, <1>6 DEF LateOf, SeenOf, Behind

LEMMA NextKeepsOrderOfTexts == LastInv /\ DiagnosticsInv /\ LateInv /\ [Next]_vars => LateInv'
<1> SUFFICES ASSUME LastInv, DiagnosticsInv, LateInv, [Next]_vars PROVE LateInv'
  OBVIOUS
<1>1. CASE User
  BY <1>1, NextStaysCurrent, UserKeepsOrderOfTexts DEF LastInv
<1>2. CASE SendShutdownRequest \/ JoinReceiver
  BY <1>2 DEF SendShutdownRequest, JoinReceiver, LateInv
<1>3. CASE UNCHANGED vars
  <2>1. UNCHANGED <<posted, main, tag, sent, text, diagnostics, toServer, toClient, server>>
    BY <1>3 DEF vars, documentVars
  <2>2. ASSUME NEW d \in Docs PROVE LateOf(d)' <=> LateOf(d)
    <3>1. SeenOf(d)' = SeenOf(d) /\ (Ahead(server[d], toServer, d)' <=> Ahead(server[d], toServer, d)) /\ Coming' = Coming
      BY <2>1 DEF SeenOf, Coming
    <3> QED   BY <2>1, <3>1 DEF LateOf, Behind
  <2> QED   BY <2>1, <2>2 DEF LateInv
<1> QED   BY <1>1, <1>2, <1>3, CallbackKeepsOrderOfTexts, ReceiverKeepsOrderOfTexts, ServerKeepsOrderOfTexts DEF Next

(* The handler of publishDiagnostics replaces what is displayed only by    *)
(* what was made of the same text or of a later one, although it applies   *)
(* whatever does not name a version: of every document, the diagnostics    *)
(* come in the order of the texts that the server has had, which only      *)
(* grow, over edits, changes of language, closings and openings.           *)
THEOREM NewerDiagnosticsReplaceOlder == Spec => DiagnosticsInOrder
<1>1. Init => LastInv /\ DiagnosticsInv /\ LateInv
  <2>1. Init => DiagnosticsInv
    BY BoundsAreNat DEF Init, DiagnosticsInv, None
  <2> QED   BY <2>1, InitKeepsInv, InitIsCurrent, InitIsInOrder DEF LastInv
<1>2. LastInv /\ DiagnosticsInv /\ LateInv /\ [Next]_vars => LateInv'
  BY NextKeepsOrderOfTexts
<1>3. LastInv /\ DiagnosticsInv /\ LateInv /\ [Next]_vars =>
        [\A d \in Docs : diagnostics'[d].tag # 0 => diagnostics'[d].text >= diagnostics[d].text]_vars
  <2> SUFFICES ASSUME LastInv, DiagnosticsInv, LateInv, [Next]_vars, NEW d \in Docs, diagnostics'[d].tag # 0
               PROVE  diagnostics'[d].text >= diagnostics[d].text
    OBVIOUS
  <2>1. diagnostics[d].text \in Int
    BY BoundsAreNat DEF DiagnosticsInv, None
  <2>2. CASE diagnostics'[d] = diagnostics[d]
    BY <2>1, <2>2
  <2>3. ASSUME NEW closing \in SUBSET Docs, DestroyTags(closing) PROVE diagnostics'[d] = diagnostics[d]
    BY <2>3 DEF DestroyTags
  <2>4. CASE OnPublishDiagnostics
    <3>1. /\ main = "idle" /\ posted # <<>> /\ posted' = Tail(posted) /\ toClient' = toClient
          /\ Head(posted).method = "publishDiagnostics"
          /\ diagnostics' = IF tag[Head(posted).doc] # 0 /\ Head(posted).version \in {None, version[Head(posted).doc]}
               THEN [diagnostics EXCEPT ![Head(posted).doc] = [text |-> Head(posted).text, tag |-> Head(posted).tag]]
               ELSE diagnostics
      BY <2>4 DEF OnPublishDiagnostics
    <3>2. Head(posted) \in ElementsOf(Coming) /\ Head(posted).text \in Int
      <4>1. Head(posted) \in ElementsOf(Coming) /\ ElementsOf(Coming) \subseteq Answer
        BY <3>1, FirstIsTaken, ComingTypes
      <4> QED   BY <4>1, BoundsAreNat DEF Answer, None
    <3>3. CASE diagnostics'[d] # diagnostics[d]
      <4>1. About(Head(posted), d) /\ diagnostics'[d].text = Head(posted).text
        BY <3>1, <3>3 DEF DiagnosticsInv, About
      <4>2. diagnostics[d].text <= Head(posted).text
        BY <3>1, <3>2, <4>1 DEF LateInv, LateOf
      <4> QED   BY <2>1, <3>2, <4>1, <4>2
    <3> QED   BY <2>2, <3>3
  <2>5. ASSUME NEW e \in Docs, Displays(e) PROVE diagnostics'[d].text >= diagnostics[d].text
    <3>1. CASE Close(e) /\ state = "ready"
      <4>1. DestroyTags({e})
        BY <3>1 DEF Close
      <4> QED   BY <2>2, <2>3, <4>1
    <3>2. CASE Disable /\ state = "ready"
      <4>1. DestroyTags(Docs)
        BY <3>2 DEF Disable
      <4> QED   BY <2>2, <2>3, <4>1
    <3>3. CASE \E h \in handlers : OnSemanticTokens(h)
      <4>1. diagnostics' = diagnostics
        BY <3>3 DEF OnSemanticTokens, TakeReply
      <4> QED   BY <2>2, <4>1
    <3> QED   BY <2>4, <2>5, <3>1, <3>2, <3>3 DEF Displays
  <2> QED   BY <2>2, <2>5, WhoDisplays
<1> QED   BY <1>1, <1>2, <1>3, LastInvHolds, PTL DEF Spec, DiagnosticsInOrder
=============================================================================
