---------------------------- MODULE Network_proofs ----------------------------
(***************************************************************************)
(* Proofs about the connections of the two servers: for any clients, any   *)
(* size of the pool and of the mailboxes.                                  *)
(***************************************************************************)
EXTENDS Network, TLAPS

Messages == Conns \cup {Abrt}

Types ==
    /\ pc \in [Servers -> {"accept", "serve", "delete"}]
    /\ newconn \in [Servers -> Messages]
    /\ acceptmbox \in [Servers -> Seq(Messages)]
    /\ netconns \in SUBSET Conns /\ asked \in SUBSET Conns /\ quit \in SUBSET Conns
    /\ peer \in [Conns -> {"none", "open", "closed"}]
    /\ connected \in BOOLEAN

\* A server has a connection exactly between accepting and deleting it.
Hands == \A s \in Servers : newconn[s] = Abrt <=> pc[s] = "accept"

\* A client has a connection exactly if that has a place in the pool.
Peers == \A c \in Conns : c \in netconns <=> peer[c] # "none"

\* No connection is in a mailbox twice.
Distinct(q) == \A i, j \in 1 .. Len(q) : q[i] = q[j] => i = j \/ q[i] = Abrt
Once        == \A s \in Servers : Distinct(acceptmbox[s])

IInv == Types /\ Hands /\ Peers /\ Once /\ NoLeak /\ ConnectedShown

Elems(q) == {q[i] : i \in 1 .. Len(q)}

\* What is in a mailbox after a message has been posted.
LEMMA AppendElems ==
    ASSUME NEW S, NEW q \in Seq(S), NEW m \in S
    PROVE  /\ Append(q, m) \in Seq(S)
           /\ Elems(Append(q, m)) = Elems(q) \cup {m}
  <1>1. /\ Append(q, m) \in Seq(S) /\ Len(Append(q, m)) = Len(q) + 1
        /\ Len(q) \in Nat
        /\ \A i \in 1 .. Len(q) : Append(q, m)[i] = q[i]
        /\ Append(q, m)[Len(q) + 1] = m
    OBVIOUS
  <1>2. 1 .. (Len(q) + 1) = (1 .. Len(q)) \cup {Len(q) + 1}
    BY <1>1
  <1> QED BY <1>1, <1>2 DEF Elems

\* What is in it after the first one has been taken.
LEMMA TailElems ==
    ASSUME NEW S, NEW q \in Seq(S), q # <<>>
    PROVE  /\ Head(q) \in S /\ Head(q) = q[1] /\ Tail(q) \in Seq(S)
           /\ Len(q) \in Nat /\ Len(q) > 0 /\ Len(Tail(q)) = Len(q) - 1
           /\ \A i \in 1 .. Len(q) - 1 : Tail(q)[i] = q[i + 1]
           /\ Elems(q) = {Head(q)} \cup Elems(Tail(q))
  <1>1. /\ Head(q) \in S /\ Head(q) = q[1] /\ Tail(q) \in Seq(S)
        /\ Len(q) \in Nat /\ Len(q) > 0 /\ Len(Tail(q)) = Len(q) - 1
        /\ \A i \in 1 .. Len(q) - 1 : Tail(q)[i] = q[i + 1]
    OBVIOUS
  <1>2. Elems(q) \subseteq {Head(q)} \cup Elems(Tail(q))
    <2>1. SUFFICES ASSUME NEW i \in 1 .. Len(q), i # 1
                   PROVE  q[i] \in Elems(Tail(q))
      BY <1>1 DEF Elems
    <2>2. i - 1 \in 1 .. Len(q) - 1 /\ q[i] = Tail(q)[i - 1]
      BY <1>1, <2>1
    <2> QED BY <1>1, <2>2 DEF Elems
  <1>3. Elems(Tail(q)) \subseteq Elems(q)
    <2>1. SUFFICES ASSUME NEW i \in 1 .. Len(q) - 1
                   PROVE  Tail(q)[i] \in Elems(q)
      BY <1>1 DEF Elems
    <2>2. i + 1 \in 1 .. Len(q) /\ Tail(q)[i] = q[i + 1]
      BY <1>1, <2>1
    <2> QED BY <2>2 DEF Elems
  <1>4. Head(q) \in Elems(q)
    BY <1>1 DEF Elems
  <1> QED BY <1>1, <1>2, <1>3, <1>4

\* The entries of a mailbox that are connections, as a set.
LEMMA WaitingElems ==
    \A s \in Servers : Waiting(s) = Elems(acceptmbox[s]) \ {Abrt}
  BY DEF Waiting, Elems

\* The same in the next state.
LEMMA WaitingElemsNext ==
    \A s \in Servers : Waiting(s)' = Elems(acceptmbox'[s]) \ {Abrt}
  BY DEF Waiting, Elems

\* Every connection belongs to one of the two servers.
LEMMA ServerTyped == \A c : Server(c) \in Servers
  BY DEF Server, Servers

-----------------------------------------------------------------------------
(* The invariant holds initially, and every action preserves it.           *)

\* The initial state.
LEMMA IInvInit == Init => IInv
  <1> SUFFICES ASSUME Init PROVE IInv
    OBVIOUS
  <1>1. Types
    <2>1. <<>> \in Seq(Messages)
      OBVIOUS
    <2> QED BY <2>1 DEF Init, Types, Messages
  <1>4. Hands /\ Peers /\ ConnectedShown
    BY DEF Init, Hands, Peers, ConnectedShown, Servers
  <1>5. Once
    BY DEF Init, Once, Distinct
  <1>2. \A s \in Servers : Waiting(s) = {} /\ Served(s) = {}
    BY DEF Init, Waiting, Served
  <1>3. NoLeak
    BY <1>2 DEF Init, NoLeak
  <1> QED BY <1>1, <1>3, <1>4, <1>5 DEF IInv

\* A connection arrives: it takes a netconn and a place, or is refused.
LEMMA IInvConnect ==
    ASSUME IInv, NEW c \in Conns, Connect(c)
    PROVE  IInv'
  <1> DEFINE s == Server(c)
             q == acceptmbox[s]
  <1>1. s \in Servers /\ q \in Seq(Messages) /\ c \in Messages /\ Abrt \in Messages
    BY ServerTyped DEF IInv, Types, Messages
  <1>2. c \notin netconns
    BY DEF IInv, Peers, Connect
  <1>3. PICK m \in {c, Abrt} :
            /\ acceptmbox' = [acceptmbox EXCEPT ![s] = Append(q, m)]
            /\ netconns' = netconns \cup ({m} \ {Abrt})
            /\ m = c => peer' = [peer EXCEPT ![c] = "open"]
            /\ m # c => peer' = peer
    BY NetworkAssumption DEF Connect, Post
  <1>4. UNCHANGED <<pc, newconn, asked, quit, connected>>
    BY DEF Connect
  <1>5. /\ acceptmbox'[s] = Append(q, m)
        /\ \A t \in Servers : t # s => acceptmbox'[t] = acceptmbox[t]
    BY <1>1, <1>3 DEF IInv, Types
  <1>6. Append(q, m) \in Seq(Messages) /\ Elems(Append(q, m)) = Elems(q) \cup {m}
    BY <1>1, <1>3, AppendElems
  <1>7. Types'
    <2>1. acceptmbox' \in [Servers -> Seq(Messages)]
      BY <1>1, <1>3, <1>6 DEF IInv, Types
    <2>2. peer' \in [Conns -> {"none", "open", "closed"}]
      BY <1>3 DEF IInv, Types
    <2>3. netconns' \in SUBSET Conns
      BY <1>3 DEF IInv, Types
    <2> QED BY <1>4, <2>1, <2>2, <2>3 DEF IInv, Types
  <1>8. Peers'
    <2>1. CASE m = c
      <3>1. netconns' = netconns \cup {c} /\ peer' = [peer EXCEPT ![c] = "open"]
        BY <1>3, <2>1, NetworkAssumption
      <3> QED BY <3>1 DEF IInv, Types, Peers
    <2>2. CASE m # c
      <3>1. netconns' = netconns /\ peer' = peer
        BY <1>3, <2>2
      <3> QED BY <3>1 DEF IInv, Peers
    <2> QED BY <2>1, <2>2
  <1>9. /\ Waiting(s)' = Waiting(s) \cup ({m} \ {Abrt})
        /\ \A t \in Servers : t # s => Waiting(t)' = Waiting(t)
        /\ \A t \in Servers : Served(t)' = Served(t)
    <2>1. Waiting(s)' = Waiting(s) \cup ({m} \ {Abrt})
      BY <1>1, <1>5, <1>6, WaitingElems, WaitingElemsNext
    <2>2. \A t \in Servers : t # s => Waiting(t)' = Waiting(t)
      BY <1>5, WaitingElems, WaitingElemsNext
    <2>3. \A t \in Servers : Served(t)' = Served(t)
      BY <1>4 DEF Served
    <2> QED BY <2>1, <2>2, <2>3
  <1>10. c \notin Waiting(s) /\ c \notin Served(s)
    BY <1>1, <1>2 DEF IInv, NoLeak
  <1>11. NoLeak'
    <2>1. netconns' = UNION {Waiting(t)' \cup Served(t)' : t \in Servers}
      <3>1. ASSUME NEW d
            PROVE  d \in netconns' <=> \E t \in Servers : d \in Waiting(t)' \cup Served(t)'
        <4>1. d \in netconns <=> \E t \in Servers : d \in Waiting(t) \cup Served(t)
          BY DEF IInv, NoLeak
        <4> QED BY <1>1, <1>3, <1>9, <4>1
      <3> QED BY <3>1
    <2>2. \A t \in Servers : \A d \in Waiting(t)' \cup Served(t)' : Server(d) = t
      BY <1>1, <1>3, <1>9 DEF IInv, NoLeak
    <2>3. \A t \in Servers : Waiting(t)' \cap Served(t)' = {}
      BY <1>1, <1>3, <1>9, <1>10 DEF IInv, NoLeak
    <2> QED BY <2>1, <2>2, <2>3 DEF NoLeak, Server
  <1>12. Once'
    <2>7. SUFFICES Distinct(Append(q, m))
      BY <1>5 DEF IInv, Once
    <2>1. SUFFICES ASSUME NEW i \in 1 .. Len(Append(q, m)), NEW j \in 1 .. Len(Append(q, m)),
                          Append(q, m)[i] = Append(q, m)[j], i # j,
                          Append(q, m)[i] # Abrt
                   PROVE  FALSE
      BY DEF Distinct
    <2>2. /\ Len(q) \in Nat /\ Len(Append(q, m)) = Len(q) + 1
          /\ \A k \in 1 .. Len(q) : Append(q, m)[k] = q[k]
          /\ Append(q, m)[Len(q) + 1] = m
      BY <1>1, <1>3
    <2>3. \A k \in 1 .. Len(q) : q[k] # c
      BY <1>1, <1>10, WaitingElems, NetworkAssumption DEF Elems
    <2>4. CASE i \in 1 .. Len(q) /\ j \in 1 .. Len(q)
      BY <1>1, <2>1, <2>2, <2>4 DEF IInv, Once, Distinct
    <2>5. CASE i = Len(q) + 1
      <3>1. j \in 1 .. Len(q) BY <2>1, <2>2, <2>5
      <3> QED BY <1>3, <2>1, <2>2, <2>3, <2>5, <3>1
    <2>6. CASE j = Len(q) + 1
      <3>1. i \in 1 .. Len(q) BY <2>1, <2>2, <2>6
      <3> QED BY <1>3, <2>1, <2>2, <2>3, <2>6, <3>1
    <2> QED BY <2>2, <2>4, <2>5, <2>6
  <1>13. Hands' /\ ConnectedShown'
    BY <1>4 DEF IInv, Hands, ConnectedShown
  <1> QED BY <1>7, <1>8, <1>11, <1>12, <1>13 DEF IInv

\* The steps that change neither mailboxes nor the pool.
LEMMA IInvServe ==
    ASSUME IInv,
           \/ \E c \in Conns : Ask(c) \/ Leave(c)
           \/ ApiServe \/ ApiClose \/ HttpServe
    PROVE  IInv'
  <1>1. UNCHANGED <<newconn, acceptmbox, netconns>>
    BY DEF Ask, Leave, ApiServe, ApiClose, HttpServe
  <1>2. "api" \in Servers /\ "http" \in Servers
    BY DEF Servers
  <1>3. \A s \in Servers : pc[s] # "accept" =>
            newconn[s] \in Conns /\ newconn[s] \in netconns
    BY DEF IInv, Types, Hands, Messages, NoLeak, Served
  <1>4. NoLeak'
    BY <1>1 DEF IInv, NoLeak, Waiting, Served, Server
  <1>5. Once'
    BY <1>1 DEF IInv, Once
  <1>6. Types' /\ Peers'
    <2>1. ASSUME NEW c \in Conns, Ask(c) PROVE Types' /\ Peers'
      BY <2>1 DEF Ask, IInv, Types, Peers
    <2>2. ASSUME NEW c \in Conns, Leave(c) PROVE Types' /\ Peers'
      BY <2>2 DEF Leave, IInv, Types, Peers
    <2>3. CASE ApiServe
      BY <1>2, <1>3, <2>3 DEF ApiServe, IInv, Types, Peers
    <2>4. CASE ApiClose
      BY <2>4 DEF ApiClose, IInv, Types, Peers
    <2>5. CASE HttpServe
      BY <1>2, <1>3, <2>5 DEF HttpServe, IInv, Types, Peers
    <2> QED BY <2>1, <2>2, <2>3, <2>4, <2>5
  <1>7. Hands' /\ ConnectedShown'
    <2>1. CASE UNCHANGED <<pc, connected>>
      BY <1>1, <2>1 DEF IInv, Hands, ConnectedShown
    <2>2. CASE ApiClose
      BY <1>1, <1>2, <2>2 DEF ApiClose, IInv, Types, Hands, ConnectedShown
    <2>3. CASE HttpServe
      BY <1>1, <1>2, <2>3 DEF HttpServe, IInv, Types, Hands, ConnectedShown
    <2> QED BY <2>1, <2>2, <2>3 DEF Ask, Leave, ApiServe
  <1> QED BY <1>4, <1>5, <1>6, <1>7 DEF IInv

\* A server takes the head of its mailbox.
LEMMA IInvAccept ==
    ASSUME IInv, NEW s \in Servers, Accept(s)
    PROVE  IInv'
  <1> DEFINE q == acceptmbox[s]
  <1>1. /\ q \in Seq(Messages) /\ q # <<>> /\ pc[s] = "accept"
        /\ acceptmbox' = [acceptmbox EXCEPT ![s] = Tail(q)]
        /\ newconn' = [newconn EXCEPT ![s] = Head(q)]
        /\ UNCHANGED <<netconns, peer, asked, quit>>
    BY DEF IInv, Types, Accept
  <1>2. /\ Head(q) \in Messages /\ Head(q) = q[1] /\ Tail(q) \in Seq(Messages)
        /\ Len(q) \in Nat /\ Len(q) > 0 /\ Len(Tail(q)) = Len(q) - 1
        /\ \A i \in 1 .. Len(q) - 1 : Tail(q)[i] = q[i + 1]
        /\ Elems(q) = {Head(q)} \cup Elems(Tail(q))
    BY <1>1, TailElems
  <1>3. Distinct(q)
    BY DEF IInv, Once
  <1>4. /\ acceptmbox'[s] = Tail(q) /\ newconn'[s] = Head(q)
        /\ \A t \in Servers : t # s => /\ acceptmbox'[t] = acceptmbox[t]
                                       /\ newconn'[t] = newconn[t]
    BY <1>1 DEF IInv, Types
  <1>5. Types'
    <2>1. acceptmbox' \in [Servers -> Seq(Messages)] /\ newconn' \in [Servers -> Messages]
      BY <1>1, <1>2 DEF IInv, Types
    <2>2. pc' \in [Servers -> {"accept", "serve", "delete"}] /\ connected' \in BOOLEAN
      BY DEF IInv, Types, Accept
    <2> QED BY <1>1, <2>1, <2>2 DEF IInv, Types
  <1>6. Peers'
    BY <1>1 DEF IInv, Peers
  <1>7. Hands'
    BY <1>4 DEF IInv, Types, Hands, Accept
  <1>8. ConnectedShown'
    BY <1>1 DEF IInv, Types, ConnectedShown, Accept, Servers
  <1>9. Once'
    <2>1. SUFFICES Distinct(Tail(q))
      BY <1>4 DEF IInv, Once
    <2>2. SUFFICES ASSUME NEW i \in 1 .. Len(q) - 1, NEW j \in 1 .. Len(q) - 1,
                          q[i + 1] = q[j + 1]
                   PROVE  i = j \/ q[i + 1] = Abrt
      BY <1>2 DEF Distinct
    <2>3. i + 1 \in 1 .. Len(q) /\ j + 1 \in 1 .. Len(q)
      BY <1>2
    <2> QED BY <1>2, <1>3, <2>2, <2>3 DEF Distinct
  <1>10. Head(q) = Abrt \/ Head(q) \notin Elems(Tail(q))
    <2>1. SUFFICES ASSUME NEW i \in 1 .. Len(q) - 1, q[i + 1] = q[1]
                   PROVE  q[1] = Abrt
      BY <1>2 DEF Elems
    <2>2. 1 \in 1 .. Len(q) /\ i + 1 \in 1 .. Len(q) /\ i + 1 # 1
      BY <1>2
    <2> QED BY <1>3, <2>1, <2>2 DEF Distinct
  <1>11. /\ Served(s) = {} /\ Served(s)' = {Head(q)} \ {Abrt}
         /\ Waiting(s)' = Elems(Tail(q)) \ {Abrt}
         /\ Waiting(s) = (Elems(Tail(q)) \cup {Head(q)}) \ {Abrt}
         /\ \A t \in Servers : t # s => Waiting(t)' = Waiting(t) /\ Served(t)' = Served(t)
    <2>1. Served(s) = {} /\ Served(s)' = {Head(q)} \ {Abrt}
      BY <1>1, <1>4 DEF IInv, Hands, Served, Types
    <2>2. /\ Waiting(s)' = Elems(Tail(q)) \ {Abrt}
          /\ Waiting(s) = (Elems(Tail(q)) \cup {Head(q)}) \ {Abrt}
      BY <1>2, <1>4, WaitingElems, WaitingElemsNext
    <2>3. ASSUME NEW t \in Servers, t # s
          PROVE  Waiting(t)' = Waiting(t) /\ Served(t)' = Served(t)
      BY <1>4, <2>3, WaitingElems, WaitingElemsNext DEF Served
    <2> QED BY <2>1, <2>2, <2>3
  <1>12. NoLeak'
    <2>1. \A t \in Servers : Waiting(t)' \cup Served(t)' = Waiting(t) \cup Served(t)
      BY <1>11
    <2>2. \A t \in Servers : Waiting(t)' \cap Served(t)' = {}
      BY <1>10, <1>11 DEF IInv, NoLeak
    <2>3. netconns' = UNION {Waiting(t)' \cup Served(t)' : t \in Servers}
      BY <1>1, <2>1 DEF IInv, NoLeak
    <2>4. \A t \in Servers : \A d \in Waiting(t)' \cup Served(t)' : Server(d) = t
      BY <2>1 DEF IInv, NoLeak
    <2> QED BY <2>2, <2>3, <2>4 DEF NoLeak, Server
  <1> QED BY <1>5, <1>6, <1>7, <1>8, <1>9, <1>12 DEF IInv

\* A server gives its connection back.
LEMMA IInvDelete ==
    ASSUME IInv, NEW s \in Servers, Delete(s)
    PROVE  IInv'
  <1> DEFINE c == newconn[s]
  <1>1. /\ c \in Conns /\ c # Abrt
        /\ netconns' = netconns \ {c} /\ peer' = [peer EXCEPT ![c] = "none"]
        /\ newconn' = [newconn EXCEPT ![s] = Abrt]
        /\ pc[s] = "delete" /\ pc' = [pc EXCEPT ![s] = "accept"]
        /\ quit' = quit \ {c} /\ UNCHANGED <<acceptmbox, asked, connected>>
    BY DEF IInv, Types, Hands, Messages, Delete
  <1>2. Types'
    BY <1>1 DEF IInv, Types, Messages
  <1>3. Peers'
    BY <1>1 DEF IInv, Types, Peers
  <1>4. Once'
    BY <1>1 DEF IInv, Once
  <1>5. Hands'
    BY <1>1 DEF IInv, Types, Hands
  <1>6. ConnectedShown'
    BY <1>1 DEF IInv, Types, ConnectedShown, Servers
  <1>7. /\ \A t \in Servers : Waiting(t)' = Waiting(t)
        /\ Served(s) = {c} /\ Served(s)' = {}
        /\ \A t \in Servers : t # s => Served(t)' = Served(t)
    BY <1>1 DEF IInv, Types, Waiting, Served
  <1>8. /\ c \notin Waiting(s)
        /\ \A t \in Servers : t # s => c \notin Waiting(t) \cup Served(t)
    BY <1>7 DEF IInv, NoLeak
  <1>9. NoLeak'
    <2>1. netconns' = UNION {Waiting(t)' \cup Served(t)' : t \in Servers}
      <3>1. ASSUME NEW d
            PROVE  d \in netconns' <=> \E t \in Servers : d \in Waiting(t)' \cup Served(t)'
        <4>1. d \in netconns <=> \E t \in Servers : d \in Waiting(t) \cup Served(t)
          BY DEF IInv, NoLeak
        <4> QED BY <1>1, <1>7, <1>8, <4>1
      <3> QED BY <3>1
    <2>2. \A t \in Servers : \A d \in Waiting(t)' \cup Served(t)' : Server(d) = t
      BY <1>7 DEF IInv, NoLeak
    <2>3. \A t \in Servers : Waiting(t)' \cap Served(t)' = {}
      BY <1>7 DEF IInv, NoLeak
    <2> QED BY <2>1, <2>2, <2>3 DEF NoLeak, Server
  <1> QED BY <1>2, <1>3, <1>4, <1>5, <1>6, <1>9 DEF IInv

\* Every step.
LEMMA IInvNext == IInv /\ [Next]_vars => IInv'
  <1> SUFFICES ASSUME IInv, [Next]_vars PROVE IInv'
    OBVIOUS
  <1>1. CASE UNCHANGED vars
    BY <1>1 DEF vars, IInv, Types, Hands, Peers, Once, NoLeak, Waiting, Served, ConnectedShown
  <1>2. "api" \in Servers /\ "http" \in Servers
    BY DEF Servers
  <1>3. CASE Next
    BY <1>2, <1>3, IInvConnect, IInvServe, IInvAccept, IInvDelete
       DEF Next, Client, Api, Http
  <1> QED BY <1>1, <1>3

\* The invariant holds in every behaviour.
LEMMA IInvAlways == Spec => []IInv
  BY IInvInit, IInvNext, PTL DEF Spec

-----------------------------------------------------------------------------

\* Every place of lwIP's pool is accounted for: a connection has one exactly
\* while it waits for its server or is served by it, however accept_function,
\* the two server_serve and netconn_delete interleave.
THEOREM NothingLeaks == Spec => []NoLeak
  <1>1. IInv => NoLeak
    BY DEF IInv
  <1> QED BY <1>1, IInvAlways, PTL

\* api_is_connected tells whether the rotator interface serves a client.
THEOREM ConnectedIsTrue == Spec => []ConnectedShown
  <1>1. IInv => ConnectedShown
    BY DEF IInv
  <1> QED BY <1>1, IInvAlways, PTL

=============================================================================
