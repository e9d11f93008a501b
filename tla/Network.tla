-------------------------------- MODULE Network --------------------------------
(***************************************************************************)
(* The two TCP servers, the rotator interface (api.c) and the web server   *)
(* (http.c), on the connections of lwIP.                                   *)
(*                                                                         *)
(* Both take their connections from one pool (MEMP_NUM_NETCONN), in which  *)
(* the listening ones have a place too.  A connection waits in its         *)
(* server's mailbox, keeping its place, until the server has finished with *)
(* those before it.  If there is no place the connection is refused, and   *)
(* the mailbox gets an error message instead.  A server has one            *)
(* connection at a time, and receives without a timeout: the rotator       *)
(* interface until the client closes, the web server once.                 *)
(***************************************************************************)
EXTENDS Naturals, Sequences, FiniteSets

CONSTANTS ApiConns, HttpConns,   \* connections to each of the servers
          Pool,                  \* places that the listening ones leave
          MboxSize,              \* DEFAULT_ACCEPTMBOX_SIZE
          Abrt                   \* the error message, no connection

Conns   == ApiConns \cup HttpConns
Servers == {"api", "http"}

ASSUME NetworkAssumption ==
    /\ ApiConns \cap HttpConns = {} /\ Abrt \notin Conns
    /\ Pool \in Nat /\ MboxSize \in Nat

VARIABLES pc,         \* accept, serve or delete, for each server
          newconn,    \* the connection it serves, Abrt if none
          acceptmbox, \* sequences of connections and Abrt
          netconns,   \* connections that have a place in the pool
          peer,       \* the client's side: none, open or closed
          asked,      \* connections with a request that is not answered
          quit,       \* history: connections whose client has sent 'q'
          connected   \* static variable of api.c

vars == <<pc, newconn, acceptmbox, netconns, peer, asked, quit, connected>>

Server(c) == IF c \in ApiConns THEN "api" ELSE "http"

-----------------------------------------------------------------------------
(* The clients, and lwIP between them and the servers.                     *)

Post(s, m) == acceptmbox' = [acceptmbox EXCEPT ![s] = Append(@, m)]

\* accept_function: a place in the pool, and then one in the mailbox.  When the
\* mailbox is full the connection is refused and nothing changes.
Connect(c) ==
    /\ peer[c] = "none"
    /\ \/ /\ Cardinality(netconns) < Pool /\ Len(acceptmbox[Server(c)]) < MboxSize
          /\ netconns' = netconns \cup {c}
          /\ peer' = [peer EXCEPT ![c] = "open"]
          /\ Post(Server(c), c)
       \/ /\ Cardinality(netconns) >= Pool /\ Len(acceptmbox[Server(c)]) < MboxSize
          /\ Post(Server(c), Abrt)
          /\ UNCHANGED <<netconns, peer>>
    /\ UNCHANGED <<pc, newconn, asked, quit, connected>>

\* A client that waits for the answer before its next request.
Ask(c) ==
    /\ peer[c] = "open" /\ c \notin asked
    /\ asked' = asked \cup {c}
    /\ UNCHANGED <<pc, newconn, acceptmbox, netconns, peer, quit, connected>>

\* The client closes, or resets the connection: then the request is dropped.
Leave(c) ==
    /\ peer[c] = "open"
    /\ peer' = [peer EXCEPT ![c] = "closed"]
    /\ asked' \in {asked, asked \ {c}}
    /\ UNCHANGED <<pc, newconn, acceptmbox, netconns, quit, connected>>

-----------------------------------------------------------------------------
(* The servers.                                                            *)

\* netconn_accept; after an error the loop goes on.
Accept(s) ==
    /\ pc[s] = "accept" /\ acceptmbox[s] # <<>>
    /\ acceptmbox' = [acceptmbox EXCEPT ![s] = Tail(@)]
    /\ newconn' = [newconn EXCEPT ![s] = Head(acceptmbox[s])]
    /\ pc' = [pc EXCEPT ![s] = IF Head(acceptmbox[s]) = Abrt THEN "accept" ELSE "serve"]
    /\ connected' = (connected \/ (s = "api" /\ Head(acceptmbox[s]) # Abrt))
    /\ UNCHANGED <<netconns, peer, asked, quit>>

\* The loop of api.c's server_serve: one request.  At 'q' the code leaves the
\* inner loop, over the parts of the request, and not the outer one.
ApiServe ==
    /\ pc["api"] = "serve" /\ newconn["api"] \in asked
    /\ asked' = asked \ {newconn["api"]}
    /\ quit' \in {quit, quit \cup {newconn["api"]}}
    /\ UNCHANGED <<pc, newconn, acceptmbox, netconns, peer, connected>>

\* Mutants: the loop goes on when netconn_recv fails; the variable is not
\* reset.
ApiClose_Ignored ==
    /\ pc["api"] = "serve" /\ newconn["api"] \notin asked
    /\ peer[newconn["api"]] = "closed"
    /\ UNCHANGED vars

ApiClose_FlagKept ==
    /\ pc["api"] = "serve" /\ newconn["api"] \notin asked
    /\ peer[newconn["api"]] = "closed"
    /\ pc' = [pc EXCEPT !["api"] = "delete"]
    /\ UNCHANGED <<newconn, acceptmbox, netconns, peer, asked, quit, connected>>

\* Its end: netconn_recv fails when the client has left.
ApiClose ==
    /\ pc["api"] = "serve" /\ newconn["api"] \notin asked
    /\ peer[newconn["api"]] = "closed"
    /\ pc' = [pc EXCEPT !["api"] = "delete"]
    /\ connected' = FALSE
    /\ UNCHANGED <<newconn, acceptmbox, netconns, peer, asked, quit>>

\* Mutant: the web server keeps the connection for further requests.
HttpServe_KeepAlive ==
    /\ pc["http"] = "serve"
    /\ \/ /\ newconn["http"] \in asked
          /\ asked' = asked \ {newconn["http"]}
          /\ UNCHANGED <<pc, peer>>
       \/ /\ newconn["http"] \notin asked /\ peer[newconn["http"]] = "closed"
          /\ pc' = [pc EXCEPT !["http"] = "delete"]
          /\ UNCHANGED <<asked, peer>>
    /\ UNCHANGED <<newconn, acceptmbox, netconns, quit, connected>>

\* http.c's server_serve: one request, or the client has left; in both cases
\* the server closes.
HttpServe ==
    /\ pc["http"] = "serve"
    /\ newconn["http"] \in asked \/ peer[newconn["http"]] = "closed"
    /\ asked' = asked \ {newconn["http"]}
    /\ peer' = [peer EXCEPT ![newconn["http"]] = "closed"]
    /\ pc' = [pc EXCEPT !["http"] = "delete"]
    /\ UNCHANGED <<newconn, acceptmbox, netconns, quit, connected>>

\* Mutant: netconn_delete is forgotten.
Delete_Forgotten(s) ==
    /\ pc[s] = "delete"
    /\ peer' = [peer EXCEPT ![newconn[s]] = "none"]
    /\ newconn' = [newconn EXCEPT ![s] = Abrt]
    /\ pc' = [pc EXCEPT ![s] = "accept"]
    /\ quit' = quit \ {newconn[s]}
    /\ UNCHANGED <<acceptmbox, netconns, asked, connected>>

\* netconn_delete gives the place back.
Delete(s) ==
    /\ pc[s] = "delete"
    /\ netconns' = netconns \ {newconn[s]}
    /\ peer' = [peer EXCEPT ![newconn[s]] = "none"]
    /\ newconn' = [newconn EXCEPT ![s] = Abrt]
    /\ pc' = [pc EXCEPT ![s] = "accept"]
    /\ quit' = quit \ {newconn[s]}
    /\ UNCHANGED <<acceptmbox, asked, connected>>

-----------------------------------------------------------------------------

Init ==
    /\ pc = [s \in Servers |-> "accept"]
    /\ newconn = [s \in Servers |-> Abrt]
    /\ acceptmbox = [s \in Servers |-> <<>>]
    /\ netconns = {} /\ asked = {} /\ quit = {}
    /\ peer = [c \in Conns |-> "none"]
    /\ connected = FALSE

Client(c) == Connect(c) \/ Ask(c) \/ Leave(c)
Api       == Accept("api") \/ ApiServe \/ ApiClose \/ Delete("api")
Http      == Accept("http") \/ HttpServe \/ Delete("http")
Next      == (\E c \in Conns : Client(c)) \/ Api \/ Http
Spec      == Init /\ [][Next]_vars

\* The servers' threads get the processor; a client of the web server sends
\* its request, or leaves.  Nothing is assumed of the rotator's clients.
FairSpec ==
    /\ Spec /\ WF_vars(Api) /\ WF_vars(Http)
    /\ \A c \in HttpConns : WF_vars(Ask(c) \/ Leave(c))

-----------------------------------------------------------------------------
(* Properties.                                                             *)

Waiting(s) == {acceptmbox[s][i] : i \in 1 .. Len(acceptmbox[s])} \ {Abrt}
Served(s)  == {newconn[s]} \ {Abrt}

\* The connections that have a place in the pool are those that wait in a
\* mailbox or that a server has in its hands, and no server has one of the
\* other: no path through server_serve loses a place for good.
NoLeak ==
    /\ netconns = UNION {Waiting(s) \cup Served(s) : s \in Servers}
    /\ \A s \in Servers : \A c \in Waiting(s) \cup Served(s) : Server(c) = s
    /\ \A s \in Servers : Waiting(s) \cap Served(s) = {}

\* api_is_connected is true exactly while the rotator interface serves a
\* client, also when clients follow each other or are refused.
ConnectedShown == connected <=> pc["api"] = "serve"

\* A request to the web server on a connection that was accepted is answered,
\* whatever the clients of the rotator interface do or fail to do.
HttpAnswered == \A c \in HttpConns : c \in asked ~> c \notin asked

\* No client of the rotator interface keeps its connection forever.
ClientsLeave == \A c \in ApiConns : peer[c] = "open" ~> peer[c] # "open"

\* A request to the rotator interface is taken, and all but 'q' answered, if no
\* client keeps its connection forever: the interface itself never closes one.
ApiAnswered == ClientsLeave => \A c \in ApiConns : c \in asked ~> c \notin asked

\* Under the same condition every place of the pool is given back, also that of a
\* connection whose client has left before the server came to it.
PlacesReturned == ClientsLeave => \A c \in Conns : c \in netconns ~> c \notin netconns

\* The interface closes a connection whose client has sent 'q' ("Quit
\* connection", api.c:132).
QuitCloses == \A c \in ApiConns : c \in quit ~> c \notin netconns

=============================================================================
