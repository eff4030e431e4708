----------------------------- MODULE MCSession ------------------------------
(* Clients that follow the protocol and clients that do not, on two        *)
(* connections of a server that admits one at a time.                      *)
EXTENDS Session

LOCAL F(tag) == ClientFrame(tag, "ok", "")
LOCAL Greeting == <<F("Startup"), F("Auth")>>

BadGreetings ==
    {<<F("Auth")>>, <<F("Malformed")>>, <<ClientFrame("Startup", "refused", "")>>,
     <<F("Startup"), F("Ping")>>, <<F("Startup"), ClientFrame("Auth", "refused", "")>>,
     <<F("Startup"), ClientFrame("Auth", "garbled", "")>>}

Requests == Greeting \o <<F("Transition"), F("Ack"), F("Current"), F("Terminate")>>
Subscribing == Greeting \o <<ClientFrame("Subscribe", "ok", "a"), F("Ping"),
                             ClientFrame("Unsubscribe", "ok", "a")>>
Resubscribing == Greeting \o <<ClientFrame("Subscribe", "ok", "a"),
                               ClientFrame("Subscribe", "ok", "a"), F("Ping")>>
Confused == Greeting \o <<ClientFrame("Subscribe", "garbled", ""), F("Startup"),
                          ClientFrame("History", "garbled", ""), F("Malformed")>>

Brief == Greeting \o <<ClientFrame("Subscribe", "ok", "a")>>

(* The client of c1 sends anything.  The other clients subscribe when it    *)
(* does not, and fail to greet when it does.                               *)
CONSTANT c1
With(s, t) == [c \in Conns |-> IF c = c1 THEN s ELSE t]
MCScripts ==
    {With(s, Brief) : s \in BadGreetings \cup {Requests}}
        \cup {With(s, <<F("Auth")>>) : s \in {Subscribing, Resubscribing, Confused}}
=============================================================================
