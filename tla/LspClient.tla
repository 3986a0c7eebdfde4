----------------------------- MODULE LspClient -----------------------------
(***************************************************************************)
(* The client of a language server: the main thread, which sends requests  *)
(* and notifications and runs what the replies ask for, the thread that    *)
(* receives, the tags and tooltips of the open documents, and, external,   *)
(* the pipes and the server.  The text of a document is abstracted to the  *)
(* number of modifications that have made it, and a change to the number   *)
(* of its modification.  Callbacks reach the main thread in order, as      *)
(* CallbackQueue promises.                                                 *)
(***************************************************************************)
EXTENDS Integers, Sequences, FiniteSets, SequencesExt

CONSTANTS
  Docs,             \* the files that may be opened
  MaxText,          \* bound: modifications of a document
  MaxChanges,       \* bound: modifications in one edit
  MaxVersion,       \* bound: edits and changes of language of the first opening, one less in each later one
  MaxOpens,         \* bound: times a document is opened
  MaxRequests,      \* bound: requests that the client sends
  PipeCapacity      \* messages that fit in a pipe; writing to a full one blocks

None == -1

ASSUME BoundsAssumption ==
  /\ Docs # {} /\ None \notin Docs
  /\ {MaxText, MaxChanges, MaxVersion, MaxOpens} \subseteq Nat
  /\ {MaxRequests, PipeCapacity} \subseteq Nat \ {0}

VARIABLES
  state,            \* client::_state
  nextId,           \* _next_message_id
  shutdownId,       \* _shutdown_message_id
  handlers,         \* _reply_handlers, with what each one captures
  receiver,         \* where the receiver thread is
  posted,           \* callbacks that wait for the main thread
  main,             \* where the main thread is
  tag,              \* identity of the interpretation_tag of each document, 0 without
  sent,             \* "opened" once didOpen is sent, "asked" once a highlight of that is requested
  opens,            \* times each document was opened
  text,             \* the text of each document
  version,          \* _change_params.textDocument.version
  changes,          \* _change_params.contentChanges
  queued,           \* _queued_highlight_version
  shown,            \* the text from which the highlight was computed
  diagnostics,      \* the text and the tag for which the diagnostics were computed
  hover,            \* _token of the hover_tooltip
  toServer,         \* messages to the server
  toClient,         \* messages to the client
  server            \* what the server knows of each document

clientVars == <<state, nextId, shutdownId, handlers>>
documentVars == <<tag, sent, opens, text, version, changes, queued, shown, diagnostics, hover>>
vars == <<clientVars, receiver, posted, main, documentVars, toServer, toClient, server>>

Closed == [open |-> FALSE, version |-> 0, text |-> 0, tag |-> 0]

TypeOK ==
  /\ state \in {"initializing", "ready", "shutting_down", "exited"}
  /\ nextId \in 0..MaxRequests + 1
  /\ shutdownId \in None..MaxRequests
  /\ \A h \in handlers : h.id \in 0..nextId - 1 /\ h.kind \in {"initialize", "highlight", "hover", "cancelled"}
  /\ receiver \in {"running", "exited"}
  /\ main \in {"idle", "stopping", "sending", "joining", "done", "asserted", "crashed"}
  /\ tag \in [Docs -> 0..MaxOpens]
  /\ queued \in [Docs -> Nat]
  /\ sent \in [Docs -> {"no", "opened", "asked"}]
  /\ shown \in [Docs -> None..MaxText]
  /\ hover \in [Docs -> None..MaxRequests]
  /\ \A d \in Docs : version[d] \in 0..MaxVersion /\ Len(changes[d]) <= MaxChanges

------------------------------------------------------------------------------
(* Messages *)
Notification(method, d) ==
  [method |-> method, id |-> None, doc |-> d, version |-> version'[d], text |-> text'[d], tag |-> tag'[d],
   changes |-> <<>>]
DidChange(d, made) == [Notification("didChange", d) EXCEPT !.changes = made]
Request(method, id, d) == [Notification(method, d) EXCEPT !.id = id]
Bare(method, id) ==
  [method |-> method, id |-> id, doc |-> None, version |-> 0, text |-> 0, tag |-> 0, changes |-> <<>>]
Handler(id, kind, d) == [id |-> id, kind |-> kind, doc |-> d, tag |-> tag'[d]]

(* enable() has started the server and sent the initialize request. *)
Init ==
  /\ state = "initializing" /\ nextId = 1 /\ shutdownId = None
  /\ handlers = {[id |-> 0, kind |-> "initialize", doc |-> None, tag |-> 0]}
  /\ receiver = "running" /\ posted = <<>> /\ main = "idle"
  /\ tag = [d \in Docs |-> 0] /\ sent = [d \in Docs |-> "no"] /\ opens = [d \in Docs |-> 0]
  /\ text = [d \in Docs |-> 0] /\ version = [d \in Docs |-> 0] /\ changes = [d \in Docs |-> <<>>]
  /\ queued = [d \in Docs |-> 0]
  /\ shown = [d \in Docs |-> None] /\ diagnostics = [d \in Docs |-> [text |-> None, tag |-> 0]]
  /\ hover = [d \in Docs |-> None]
  /\ toServer = <<Bare("initialize", 0)>> /\ toClient = <<>>
  /\ server = [d \in Docs |-> Closed]

Send(messages) ==
  /\ Len(toServer) + Len(messages) <= PipeCapacity
  /\ toServer' = toServer \o messages
Reply(message) == Len(toClient) < PipeCapacity /\ toClient' = Append(toClient, message)

(* The request that follows the given notifications, with its handler.     *)
SendRequest(before, method, kind, d) ==
  /\ nextId < MaxRequests
  /\ nextId' = nextId + 1
  /\ handlers' = handlers \cup {Handler(nextId, kind, d)}
  /\ Send(before \o <<Request(method, nextId, d)>>)
  /\ UNCHANGED <<state, shutdownId>>

(* assert_true_usage() has failed. *)
AssertionFails == main' = "asserted" /\ UNCHANGED <<clientVars, receiver, posted, documentVars, toServer, toClient, server>>
Crash == main' = "crashed" /\ UNCHANGED <<clientVars, receiver, posted, documentVars, toServer, toClient, server>>

------------------------------------------------------------------------------
(* The main thread: documents *)

(* The constructor of a tag. *)
Open(d) ==
  /\ main = "idle" /\ tag[d] = 0 /\ opens[d] < MaxOpens
  /\ opens' = [opens EXCEPT ![d] = @ + 1]
  /\ tag' = [tag EXCEPT ![d] = opens[d] + 1]
  /\ sent' = [sent EXCEPT ![d] = IF state = "ready" THEN "asked" ELSE "no"]
  /\ version' = [version EXCEPT ![d] = 0]
  /\ changes' = [changes EXCEPT ![d] = <<>>]
  /\ UNCHANGED <<receiver, posted, main, text, shown, diagnostics, hover, toClient, server>>
  /\ IF state = "ready"
       THEN /\ SendRequest(<<Notification("didOpen", d)>>, "semanticTokens", "highlight", d)
            /\ queued' = [queued EXCEPT ![d] = 1]
       ELSE queued' = [queued EXCEPT ![d] = 0] /\ UNCHANGED <<clientVars, toServer>>

(* Mutant of Edit: begin_edit does not clear the changes. *)
EditKeepsChanges(d, n) ==
  /\ main = "idle" /\ tag[d] # 0 /\ text[d] + n <= MaxText
  /\ text' = [text EXCEPT ![d] = @ + n]
  /\ UNCHANGED <<receiver, posted, main, tag, opens, shown, diagnostics, hover, toClient, server>>
  /\ LET made == changes[d] \o [i \in 1..n |-> text[d] + i]
     IN  IF state = "ready"
           THEN /\ version[d] + opens[d] <= MaxVersion
                /\ version' = [version EXCEPT ![d] = @ + 1]
                /\ sent' = [sent EXCEPT ![d] = IF @ = "no" THEN "no" ELSE "asked"]
                /\ SendRequest(<<DidChange(d, made)>>, "semanticTokens", "highlight", d)
                /\ queued' = [queued EXCEPT ![d] = @ + 1]
                /\ changes' = [changes EXCEPT ![d] = <<>>]
           ELSE /\ changes' = [changes EXCEPT ![d] = made]
                /\ UNCHANGED <<clientVars, version, sent, queued, toServer>>

(* An edit of n modifications: begin_edit, end_modification for each one,  *)
(* end_edit.  The changes of an edit that is not sent stay until the next. *)
Edit(d, n) ==
  /\ main = "idle" /\ tag[d] # 0 /\ text[d] + n <= MaxText
  /\ text' = [text EXCEPT ![d] = @ + n]
  /\ UNCHANGED <<receiver, posted, main, tag, opens, shown, diagnostics, hover, toClient, server>>
  /\ LET made == [i \in 1..n |-> text[d] + i]
     IN  IF state = "ready"
           THEN /\ version[d] + opens[d] <= MaxVersion
                /\ version' = [version EXCEPT ![d] = @ + 1]
                /\ sent' = [sent EXCEPT ![d] = IF @ = "no" THEN "no" ELSE "asked"]
                /\ SendRequest(<<DidChange(d, made)>>, "semanticTokens", "highlight", d)
                /\ queued' = [queued EXCEPT ![d] = @ + 1]
                /\ changes' = [changes EXCEPT ![d] = <<>>]
           ELSE /\ changes' = [changes EXCEPT ![d] = made]
                /\ UNCHANGED <<clientVars, version, sent, queued, toServer>>

(* _on_language_changed(): the document is closed and opened again.        *)
ChangeLanguage(d) ==
  /\ main = "idle" /\ tag[d] # 0 /\ state = "ready" /\ version[d] + opens[d] <= MaxVersion
  /\ version' = [version EXCEPT ![d] = @ + 1]
  /\ sent' = [sent EXCEPT ![d] = "opened"]
  /\ UNCHANGED <<clientVars, receiver, posted, main, tag, opens, text, changes, queued, shown,
                 diagnostics, hover, toClient, server>>
  /\ Send(<<Notification("didClose", d), Notification("didOpen", d)>>)

(* cancel_handler() for those requests of tooltips that are not answered.  *)
CancelHover(closing) ==
  /\ handlers' = {IF h.kind = "hover" /\ h.doc \in closing THEN [h EXCEPT !.kind = "cancelled"] ELSE h : h \in handlers}
  /\ hover' = [d \in Docs |-> IF d \in closing THEN None ELSE hover[d]]

(* What the destructor of a tag leaves, apart from its didClose. *)
DestroyTags(closing) ==
  /\ tag' = [d \in Docs |-> IF d \in closing THEN 0 ELSE tag[d]]
  /\ sent' = [d \in Docs |-> IF d \in closing THEN "no" ELSE sent[d]]
  /\ version' = [d \in Docs |-> IF d \in closing THEN 0 ELSE version[d]]
  /\ changes' = [d \in Docs |-> IF d \in closing THEN <<>> ELSE changes[d]]
  /\ queued' = [d \in Docs |-> IF d \in closing THEN 0 ELSE queued[d]]
  /\ shown' = [d \in Docs |-> IF d \in closing THEN None ELSE shown[d]]
  /\ diagnostics' = [d \in Docs |-> IF d \in closing THEN [text |-> None, tag |-> 0] ELSE diagnostics[d]]
  /\ UNCHANGED <<opens, text>>

(* The last editor of a document is closed: its tooltip, then its tag.     *)
Close(d) ==
  /\ main = "idle" /\ tag[d] # 0
  /\ IF state = "ready"
       THEN /\ CancelHover({d})
            /\ DestroyTags({d})
            /\ Send(<<Notification("didClose", d)>>)
            /\ UNCHANGED <<state, nextId, shutdownId, receiver, posted, main, toClient, server>>
       ELSE AssertionFails

(* The constructor of hover_tooltip, with a client that is ready. *)
ShowTooltip(d) ==
  /\ main = "idle" /\ tag[d] # 0 /\ hover[d] = None /\ state = "ready"
  /\ hover' = [hover EXCEPT ![d] = nextId]
  /\ UNCHANGED <<receiver, posted, main, tag, sent, opens, text, version, changes, queued, shown, diagnostics,
                 toClient, server>>
  /\ SendRequest(<<>>, "hover", "hover", d)

(* The destructor; a token that outlives its client is used nevertheless.  *)
DestroyTooltip(d) ==
  /\ hover[d] # None
  /\ \/ /\ main = "idle"
        /\ CancelHover({d})
        /\ UNCHANGED <<state, nextId, shutdownId, receiver, posted, main, tag, sent, opens, text, version, changes,
                       queued, shown, diagnostics, toServer, toClient, server>>
     \/ main = "done" /\ Crash

------------------------------------------------------------------------------
(* The main thread: disabling the plugin *)

(* manager::disable() destroys the tags, shutdown() is called.             *)
Disable ==
  /\ main = "idle"
  /\ IF state # "ready" THEN AssertionFails
     ELSE /\ DestroyTags(Docs)
          /\ state' = "shutting_down"
          /\ main' = "stopping"
          /\ Send([i \in 1..Cardinality({d \in Docs : tag[d] # 0}) |->
                     Notification("didClose", SetToSeq({d \in Docs : tag[d] # 0})[i])])
          /\ UNCHANGED <<nextId, shutdownId, handlers, receiver, posted, hover, toClient, server>>

(* Mutant of SendShutdownRequest: the id is stored after the request is sent. *)
SendShutdownFirst ==
  /\ \/ /\ main = "stopping" /\ main' = "sending"
        /\ Send(<<Bare("shutdown", nextId)>>)
        /\ UNCHANGED <<nextId, shutdownId>>
     \/ /\ main = "sending" /\ main' = "joining"
        /\ shutdownId' = nextId /\ nextId' = nextId + 1
        /\ UNCHANGED toServer
  /\ UNCHANGED <<state, handlers, receiver, posted, documentVars, toClient, server>>

(* _send_shutdown_request(): the id, for which the receiver looks, then    *)
(* the request.                                                            *)
SendShutdownRequest ==
  /\ \/ /\ main = "stopping" /\ main' = "sending"
        /\ shutdownId' = nextId /\ nextId' = nextId + 1
        /\ UNCHANGED toServer
     \/ /\ main = "sending" /\ main' = "joining"
        /\ Send(<<Bare("shutdown", shutdownId)>>)
        /\ UNCHANGED <<nextId, shutdownId>>
  /\ UNCHANGED <<state, handlers, receiver, posted, documentVars, toClient, server>>

(* The rest of shutdown_and_exit(), and the end of the client. *)
JoinReceiver ==
  /\ main = "joining" /\ receiver = "exited"
  /\ Send(<<Bare("exit", None)>>)
  /\ state' = "exited"
  /\ main' = "done"
  /\ UNCHANGED <<nextId, shutdownId, handlers, receiver, posted, documentVars, toClient, server>>

------------------------------------------------------------------------------
(* The receiver thread *)

(* Mutant of Receive: the callback is put before those that wait. *)
ReceiveInFront ==
  /\ receiver = "running" /\ toClient # <<>>
  /\ toClient' = Tail(toClient)
  /\ IF Head(toClient).method = "reply" /\ Head(toClient).id = shutdownId
       THEN receiver' = "exited" /\ UNCHANGED posted
       ELSE posted' = <<Head(toClient)>> \o posted /\ UNCHANGED receiver
  /\ UNCHANGED <<clientVars, main, documentVars, toServer, server>>

Receive ==
  /\ receiver = "running" /\ toClient # <<>>
  /\ toClient' = Tail(toClient)
  /\ IF Head(toClient).method = "reply" /\ Head(toClient).id = shutdownId
       THEN receiver' = "exited" /\ UNCHANGED posted
       ELSE posted' = Append(posted, Head(toClient)) /\ UNCHANGED receiver
  /\ UNCHANGED <<clientVars, main, documentVars, toServer, server>>

------------------------------------------------------------------------------
(* The main thread: callbacks *)

(* The reply at the head of the queue and the handler that it takes out.   *)
TakesReply(h) ==
  /\ main = "idle" /\ posted # <<>>
  /\ h \in handlers /\ Head(posted).method = "reply" /\ Head(posted).id = h.id
TakeReply(h) ==
  /\ posted' = Tail(posted)
  /\ handlers' = handlers \ {h}
  /\ UNCHANGED <<nextId, shutdownId, receiver, main, tag, sent, opens, text, version, changes, diagnostics,
                 toClient, server>>

OnInitialize(h) ==
  /\ TakesReply(h) /\ h.kind = "initialize"
  /\ state' = "ready"
  /\ Send(<<Bare("initialized", None)>>)
  /\ TakeReply(h)
  /\ UNCHANGED <<queued, shown, hover>>

(* Mutant of OnSemanticTokens: an error is not counted. *)
OnSemanticTokensNotCounted(h) ==
  /\ TakesReply(h) /\ h.kind = "highlight" /\ tag[h.doc] = h.tag
  /\ TakeReply(h)
  /\ queued' = IF Head(posted).outcome = "error" THEN queued ELSE [queued EXCEPT ![h.doc] = @ - 1]
  /\ shown' = IF Head(posted).outcome = "result" /\ queued[h.doc] = 1
                THEN [shown EXCEPT ![h.doc] = Head(posted).text] ELSE shown
  /\ UNCHANGED <<state, hover, toServer>>

(* _on_semanticTokens(), or the handler of errors, of the tag that sent    *)
(* the request: both count, and only the last reply is applied.            *)
OnSemanticTokens(h) ==
  /\ TakesReply(h) /\ h.kind = "highlight" /\ tag[h.doc] = h.tag
  /\ TakeReply(h)
  /\ queued' = [queued EXCEPT ![h.doc] = @ - 1]
  /\ shown' = IF Head(posted).outcome = "result" /\ queued[h.doc] = 1
                THEN [shown EXCEPT ![h.doc] = Head(posted).text] ELSE shown
  /\ UNCHANGED <<state, hover, toServer>>

(* The handler captures a tag that is gone. *)
OnSemanticTokensDangling(h) ==
  /\ TakesReply(h) /\ h.kind = "highlight" /\ tag[h.doc] # h.tag
  /\ Crash

(* Mutant of OnHover: the token is kept. *)
OnHoverKeepsToken(h) ==
  /\ TakesReply(h) /\ h.kind = "hover"
  /\ TakeReply(h)
  /\ UNCHANGED <<state, queued, shown, hover, toServer>>

OnHover(h) ==
  /\ TakesReply(h) /\ h.kind = "hover"
  /\ TakeReply(h)
  /\ hover' = [hover EXCEPT ![h.doc] = None]
  /\ UNCHANGED <<state, queued, shown, toServer>>

OnCancelled(h) ==
  /\ TakesReply(h) /\ h.kind = "cancelled"
  /\ TakeReply(h)
  /\ UNCHANGED <<state, queued, shown, hover, toServer>>

(* Mutant of OnPublishDiagnostics: the version is not looked at. *)
OnPublishAnyVersion ==
  /\ main = "idle" /\ posted # <<>> /\ Head(posted).method = "publishDiagnostics"
  /\ posted' = Tail(posted)
  /\ LET m == Head(posted)
     IN  diagnostics' = IF tag[m.doc] # 0
                          THEN [diagnostics EXCEPT ![m.doc] = [text |-> m.text, tag |-> m.tag]] ELSE diagnostics
  /\ UNCHANGED <<clientVars, receiver, main, tag, sent, opens, text, version, changes, queued, shown, hover,
                 toServer, toClient, server>>

(* The handler of publishDiagnostics drops what is for a document that is  *)
(* not open, or says that it is for another version of it.  What does not  *)
(* say its version is applied.                                             *)
OnPublishDiagnostics ==
  /\ main = "idle" /\ posted # <<>> /\ Head(posted).method = "publishDiagnostics"
  /\ posted' = Tail(posted)
  /\ LET m == Head(posted)
     IN  diagnostics' = IF tag[m.doc] # 0 /\ m.version \in {None, version[m.doc]}
                          THEN [diagnostics EXCEPT ![m.doc] = [text |-> m.text, tag |-> m.tag]] ELSE diagnostics
  /\ UNCHANGED <<clientVars, receiver, main, tag, sent, opens, text, version, changes, queued, shown, hover,
                 toServer, toClient, server>>

(* A callback refers to a client that has been destroyed. *)
CallbackDangling == main = "done" /\ posted # <<>> /\ Crash

Callback ==
  \/ \E h \in handlers : \/ OnInitialize(h) \/ OnSemanticTokens(h) \/ OnSemanticTokensDangling(h)
                         \/ OnHover(h) \/ OnCancelled(h)
  \/ OnPublishDiagnostics
  \/ CallbackDangling

------------------------------------------------------------------------------
(* The server (external): it handles messages in order, replies to every   *)
(* request in that order, and gives the diagnostics of what it knows.      *)

Opened(m) == [open |-> TRUE, version |-> m.version, text |-> m.text, tag |-> m.tag]
Changed(s, m) ==
  [s EXCEPT !.version = m.version,
            !.text = IF m.changes = [i \in 1..Len(m.changes) |-> s.text + i] THEN s.text + Len(m.changes) ELSE None]
Known(m) ==
  IF m.method = "didOpen" THEN Opened(m)
  ELSE IF m.method = "didChange" /\ server[m.doc].open THEN Changed(server[m.doc], m)
  ELSE Closed

(* didOpen, didChange and didClose, the former two possibly with           *)
(* diagnostics of the result, which may name the version or not: that is   *)
(* optional, and the client does not ask for it (versionSupport).          *)
ServerNotified ==
  /\ toServer # <<>> /\ Head(toServer).doc \in Docs /\ Head(toServer).id = None
  /\ LET m == Head(toServer)
     IN  /\ server' = [server EXCEPT ![m.doc] = Known(m)]
         /\ \/ UNCHANGED toClient
            \/ /\ Known(m).open
               /\ \E named \in {None, Known(m).version} :
                    Reply([method |-> "publishDiagnostics", id |-> None, doc |-> m.doc, outcome |-> "result",
                           version |-> named, text |-> Known(m).text, tag |-> Known(m).tag])

(* A request for a document gets an error if the document is not open, and *)
(* may get "ContentModified" if what modifies it has already arrived.      *)
ServerRequested ==
  /\ toServer # <<>> /\ Head(toServer).doc \in Docs /\ Head(toServer).id # None
  /\ LET m == Head(toServer)
         modified == \E i \in 2..Len(toServer) : toServer[i].doc = m.doc /\ toServer[i].id = None
     IN  \E outcome \in {"result", "error"} :
           /\ outcome = "result" => server[m.doc].open
           /\ outcome = "error" => ~server[m.doc].open \/ modified
           /\ Reply([method |-> "reply", id |-> m.id, doc |-> m.doc, outcome |-> outcome,
                     version |-> 0, text |-> server[m.doc].text, tag |-> 0])
  /\ UNCHANGED server

(* initialize, initialized, shutdown and exit. *)
ServerControlled ==
  /\ toServer # <<>> /\ Head(toServer).doc = None
  /\ IF Head(toServer).id = None THEN UNCHANGED toClient
     ELSE Reply([method |-> "reply", id |-> Head(toServer).id, doc |-> None, outcome |-> "result",
                 version |-> 0, text |-> 0, tag |-> 0])
  /\ UNCHANGED server

Server ==
  /\ ServerNotified \/ ServerRequested \/ ServerControlled
  /\ toServer' = Tail(toServer)
  /\ UNCHANGED <<clientVars, receiver, posted, main, documentVars>>

------------------------------------------------------------------------------
User ==
  \/ \E d \in Docs : \/ Open(d) \/ ChangeLanguage(d) \/ Close(d) \/ ShowTooltip(d) \/ DestroyTooltip(d)
                     \/ \E n \in 1..MaxChanges : Edit(d, n)
  \/ Disable

Next == User \/ SendShutdownRequest \/ JoinReceiver \/ Receive \/ Callback \/ Server

Spec == Init /\ [][Next]_vars

(* The operating system runs both threads, the main thread runs posted     *)
(* callbacks and comes back from the join, and the server answers.         *)
Fairness ==
  /\ WF_vars(Callback) /\ WF_vars(SendShutdownRequest) /\ WF_vars(JoinReceiver) /\ WF_vars(Receive)
  /\ WF_vars(Server)
FairSpec == Spec /\ Fairness

------------------------------------------------------------------------------
(* Every request is accounted for: the token of a tooltip refers to a      *)
(* registered handler, which may be modified through it, and the count of  *)
(* queued highlights is that of the handlers that will lower it.           *)
RequestsInv ==
  /\ TypeOK
  /\ main \notin {"done", "asserted", "crashed"} =>
       \A d \in Docs :
         /\ hover[d] # None => \E h \in handlers : h.id = hover[d] /\ h.kind = "hover" /\ h.doc = d
         /\ tag[d] # 0 =>
              queued[d] = Cardinality({h \in handlers : h.kind = "highlight" /\ h.doc = d /\ h.tag = tag[d]})

(* Incremental changes add up: when the server has read everything about a *)
(* document that was sent to it, it has its text and its version.          *)
ServerInSync ==
  \A d \in Docs :
    /\ tag[d] # 0 /\ sent[d] # "no" /\ main = "idle"
    /\ \A i \in DOMAIN toServer : toServer[i].doc # d
    => server[d].open /\ server[d].text = text[d] /\ server[d].version = version[d]

(* "Highlights should only be applied when it'll be applied to the newest  *)
(* version"; and diagnostics that name their version are those of the text *)
(* that is displayed, as long as they are of this opening of the document. *)
(* Those that name none may be of an earlier text.                         *)
RepliesAreCurrent ==
  [][\A d \in Docs :
       /\ shown'[d] \notin {shown[d], None} => shown'[d] = text[d]
       /\ /\ diagnostics'[d] # diagnostics[d] /\ diagnostics'[d].tag = tag[d] /\ tag[d] # 0
          /\ Head(posted).version # None
          => diagnostics'[d].text = text[d]]_vars

(* Diagnostics are never replaced by those of an older text, whether they  *)
(* name their version or not, over edits, openings and messages under way: *)
(* they come in the order in which the server has made them.               *)
DiagnosticsInOrder ==
  [][\A d \in Docs : diagnostics'[d].tag # 0 => diagnostics'[d].text >= diagnostics[d].text]_vars

(* shutdown_and_exit() returns, from any state of the conversation.        *)
ShutdownReturns == main = "stopping" ~> main = "done"

(* When the user rests the highlight is that of the text, if it was asked  *)
(* for since the document was last sent.                                   *)
TokensCatchUp ==
  <>[](main = "idle" => \A d \in Docs : sent[d] = "asked" => shown[d] = text[d])
=============================================================================
