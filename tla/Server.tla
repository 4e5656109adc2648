------------------------------- MODULE Server -------------------------------
(***************************************************************************)
(* The process (core/main.cpp): its start, signals, and end, and the way   *)
(* of a query through all of it: from the UDP listener (module             *)
(* UdpListener) through QueryProcessor::handle() to the resolver, here     *)
(* only as good as its promise (module ResolverService), and back.         *)
(*                                                                         *)
(* Each held query is its own client of the resolver.  A datagram also     *)
(* has an id, a question, and how that is spelled.  What the resolver does *)
(* in callbacks of its own happens in the turn of "other" descriptors,     *)
(* with which the loop's timers count here.                                *)
(***************************************************************************)
EXTENDS UdpListener, Sequences

CONSTANTS Questions

ASSUME ServerConstants ==
  /\ \A d \in Datagrams : d.question \in Questions
  /\ None \notin Questions

VARIABLES
  waiting, due,    \* of ResolverService
  owed,            \* history: queries being resolved, with no response decided on yet
  reply,           \* the message last sent
  todo,            \* what main() is still to do before it returns
  objects,         \* its local objects, newest first
  on_term, on_hup, \* what SIGINT and SIGTERM, and SIGHUP, do
  stop_requested_

Resolver == INSTANCE ResolverService WITH Clients <- Datagrams

service == <<waiting, due>>
signals == <<on_term, on_hup>>
vars == <<udpVars, service, owed, reply, todo, objects, signals, stop_requested_>>

Starting ==
  <<"loop", "resolver", "processor", "udp", "tcp", "reload_fd", "watch", "SIGTERM", "SIGHUP",
    "run">>

CloseFirst == <<"unwatch", "close", "default", "ignore">>   \* wrong: SIGHUP may still write

\* From the return of run() to that of main().
Stopping == <<"default", "ignore", "unwatch", "close">>

Init ==
  /\ UdpInit /\ Resolver!Init
  /\ owed = {} /\ reply = None
  /\ todo = Starting \o Stopping
  /\ objects = <<>>
  /\ on_term = "default" /\ on_hup = "default"
  /\ stop_requested_ = FALSE

Doing(steps) == todo # <<>> /\ Head(todo) \in steps
Alive(object) == \E i \in DOMAIN objects : objects[i] = object
Killed == on_term = "killed"

----------------------------------------------------------------------------
(* main() *)

Construct ==
  /\ Doing({"loop", "resolver", "processor", "udp", "tcp", "reload_fd"})
  /\ objects' = <<Head(todo)>> \o objects /\ todo' = Tail(todo)
  /\ IF Doing({"udp"}) THEN \E s \in Sockets, f \in FdNumbers : create(s, f) ELSE UNCHANGED udpVars
  /\ UNCHANGED <<service, owed, reply, signals, stop_requested_>>

\* Early returns: create(), eventfd() or add_fd() failed.
Fail ==
  /\ Doing({"loop", "udp", "tcp", "reload_fd", "watch"})
  /\ todo' = <<>>
  /\ UNCHANGED <<udpVars, service, owed, reply, objects, signals, stop_requested_>>

\* add_fd(), sigaction(), remove_fd() and close(), the eventfd being the newest object.
Statement ==
  /\ Doing({"watch", "SIGTERM", "SIGHUP", "default", "ignore", "unwatch", "close"})
  /\ todo' = Tail(todo)
  /\ on_term' = CASE Doing({"SIGTERM"}) -> "stop" [] Doing({"default"}) -> "default"
                  [] OTHER -> on_term
  /\ on_hup' = CASE Doing({"SIGHUP"}) -> "write" [] Doing({"ignore"}) -> "ignore"
                 [] OTHER -> on_hup
  /\ objects' = IF Doing({"close"}) THEN Tail(objects) ELSE objects
  /\ UNCHANGED <<udpVars, service, owed, reply, stop_requested_>>

\* run() returns between two batches.
RunReturns ==
  /\ Doing({"run"}) /\ ~InHandler /\ events = {} /\ due = {}
  /\ stop_requested_
  /\ stop_requested_' = FALSE
  /\ todo' = Tail(todo)
  /\ UNCHANGED <<udpVars, service, owed, reply, objects, signals>>

\* The objects go, newest first; with the resolver go the callbacks it holds, and with
\* these their responders.
Destruct ==
  /\ todo = <<>> /\ objects # <<>> /\ ~Killed
  /\ objects' = Tail(objects)
  /\ CASE Head(objects) = "udp" -> destroy /\ UNCHANGED <<service, owed>>
       [] Head(objects) = "resolver" ->
            Resolver!Abandon /\ DropResponders(responders) /\ owed' = {}
       [] OTHER -> UNCHANGED <<udpVars, service, owed>>
  /\ UNCHANGED <<reply, todo, signals, stop_requested_>>

\* A signal comes, at any moment: the default is to end the process at once.
Terminate ==
  /\ ~Killed /\ objects # <<>>
  /\ \/ on_term = "stop" /\ stop_requested_' = TRUE /\ UNCHANGED <<on_term, todo>>
     \/ /\ "default" \in {on_term, on_hup}
        /\ on_term' = "killed" /\ todo' = <<>> /\ UNCHANGED stop_requested_
  /\ UNCHANGED <<udpVars, service, owed, reply, objects, on_hup>>

\* on_reload_signal() makes the eventfd, one of the other descriptors, readable.
Hangup ==
  /\ ~Killed /\ on_hup = "write" /\ OtherReady
  /\ UNCHANGED <<service, owed, reply, todo, objects, signals, stop_requested_>>

----------------------------------------------------------------------------
(* The loop's thread in run(): QueryProcessor::handle() and its callback *)

FirstAskers(d, outcome) ==   \* wrong: those who share a resolution share its response
  LET e == CHOOSE e \in Datagrams : e.question = d.question
  IN  [id |-> e.id, spelled |-> e.spelled, outcome |-> outcome]

\* make_response(query), and what it is completed with.
Response(d, outcome) == [id |-> d.id, spelled |-> d.spelled, outcome |-> outcome]

\* The query ends here: it is no query, its client is denied or over a limit, it is
\* malformed, or its name is blocked; RRL may drop or truncate the response.
EndsHere(d) ==
  /\ \/ (Dropped(d) \/ Ignored(d)) /\ UNCHANGED reply
     \/ AnsweredAtOnce(d) /\ reply' = Response(d, "decided here")
  /\ UNCHANGED <<service, owed>>

resolve(d) ==
  /\ KeptForLater(d)
  /\ Resolver!Ask(d, d.question)
  /\ owed' = owed \cup {d}
  /\ UNCHANGED reply

\* The callback, with an answer to the question resolved, or none.
OnResolved(r) ==
  /\ r.query \in due /\ Resolver!CallBack(r.query)
  /\ owed' = owed \ {r.query}
  /\ \/ DropResponders({r}) /\ UNCHANGED reply
     \/ Respond(r) /\ \E outcome \in {waiting[r.query], "SERVFAIL"} :
                        reply' = Response(r.query, outcome)

\* A turn of the other descriptors and timers may bring the outcome for a question.
Resolves(q) == OtherTurn /\ Resolver!Answer(q) /\ UNCHANGED <<owed, reply>>

InLoop == Doing({"run"}) /\ UNCHANGED <<todo, objects, signals, stop_requested_>>

\* Between two looks at stop_requested_, everything polled is dispatched.
RunStep ==
  /\ InLoop
  /\ \/ \E r \in responders : OnResolved(r)
     \/ /\ due = {}
        /\ \/ \E d \in Datagrams : EndsHere(d) \/ resolve(d)
           \/ \E q \in Questions : Resolves(q)
           \/ OnReadable /\ UNCHANGED <<service, owed, reply>>
           \/ OtherTurn /\ UNCHANGED <<service, owed, reply>>
           \/ Return /\ UNCHANGED <<service, owed, reply>>
           \/ ReceiveError /\ UNCHANGED <<service, owed, reply>>
           \/ ~stop_requested_ /\ Poll /\ UNCHANGED <<service, owed, reply>>

World ==
  /\ OtherReady \/ \E d \in Datagrams : Arrive(d) \/ Lose(d)
  /\ ~Killed
  /\ UNCHANGED <<service, owed, reply, todo, objects, signals, stop_requested_>>

MainStep == Construct \/ Fail \/ Statement \/ RunReturns \/ Destruct \/ RunStep

Next == MainStep \/ Terminate \/ Hangup \/ World

Spec == Init /\ [][Next]_vars

\* The process is scheduled; timers and upstream answers keep coming; and one of them
\* ends each resolution (EveryoneAnswered of module Resolver), given turns enough.
FairSpec ==
  /\ Spec
  /\ WF_vars(MainStep) /\ WF_vars(OtherReady /\ World)
  /\ \A q \in Questions : SF_vars(InLoop /\ due = {} /\ Resolves(q))

----------------------------------------------------------------------------
AnswerExact ==
  sent' # None /\ sent' # sent =>
    LET d == sent'.answers IN
    /\ d \in owed \cup inbox /\ d \notin owed' \cup inbox'
    /\ reply'.id = d.id /\ reply'.spelled = d.spelled
    /\ reply'.outcome \in {"decided here", "SERVFAIL", d.question}

\* A response is the only one to its query, which was read just now or is being
\* resolved; it carries that client's own id and spelling, also when others who asked
\* the same share the resolution, and the outcome for that question.
AnsweredAsAsked == [][AnswerExact]_vars

\* "destroyed in reverse: listener first, loop last": a callback never meets an object
\* that is gone, and a signal, which may come between any two steps, none that is not
\* there yet or any more.
LifetimesNested ==
  ~Killed =>
    /\ on_term = "stop" => Alive("loop")
    /\ on_hup = "write" => Alive("reload_fd")
    /\ Listening => Alive("processor") /\ Alive("loop")
    /\ due # {} => Alive("processor") /\ Alive("resolver")
    /\ owed # {} => Alive("resolver") /\ Alive("loop")
    /\ Doing({"run"}) => Alive("tcp") /\ Alive("udp")

\* "then give other fds a turn": however many datagrams keep coming, every query that
\* is resolved gets its response decided, unless the process ends, and SIGTERM ends it
\* in good order, whatever is being resolved.
NothingStarves ==
  /\ \A d \in Datagrams : d \in owed ~> (d \notin owed \/ Killed)
  /\ stop_requested_ ~> (objects = <<>> \/ Killed)

----------------------------------------------------------------------------
(* Why AnsweredAsAsked holds *)

\* The queries owed an answer are those a responder is held for, one each, and so are
\* not in the socket's buffer; and the resolver was asked what its clients asked.
ServerInv ==
  /\ UdpInv
  /\ owed = {r.query : r \in responders}
  /\ \A r1, r2 \in responders : r1.query = r2.query => r1 = r2
  /\ waiting \in [Datagrams -> Questions \cup {None}] /\ due \subseteq Datagrams
  /\ \A d \in Datagrams : waiting[d] \in {None, d.question}
  /\ \A d \in due : waiting[d] = d.question

----------------------------------------------------------------------------
(* Why LifetimesNested holds *)

Program == Starting \o Stopping

\* What is left of it at the k-th step.
Rest(k) == [i \in 1..(15 - k) |-> Program[k - 1 + i]]

\* The n oldest objects of main(), newest first.
Oldest(n) ==
  LET all == <<"reload_fd", "tcp", "udp", "processor", "resolver", "loop">>
  IN  [i \in 1..n |-> all[6 - n + i]]

\* main() is at its k-th step: what it has made, and what signals do by then.
AtStep(k) ==
  /\ todo = Rest(k)
  /\ objects = Oldest(IF k <= 6 THEN k - 1 ELSE 6)
  /\ on_term = IF k \in 9..11 THEN "stop" ELSE "default"
  /\ on_hup = IF k <= 9 THEN "default" ELSE IF k <= 12 THEN "write" ELSE "ignore"

\* main() is at one of its steps, or returns, with no signal handler left, and destroys
\* what it has, newest first; there is a listener only as long as its object, callbacks
\* are due only in run(), and the resolver's destruction ends what it was asked.
MainInv ==
  /\ \/ \E k \in 1..14 : AtStep(k)
     \/ /\ todo = <<>> /\ \E n \in 0..6 : objects = Oldest(n)
        /\ ~Killed => on_term = "default" /\ on_hup # "write"
  /\ Listening => Alive("udp")
  /\ due # {} => Killed \/ Doing({"run"})
  /\ owed # {} => Alive("resolver")
============================================================================
