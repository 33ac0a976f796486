----------------------------- MODULE Server_proofs -----------------------------
(***************************************************************************)
(* Theorems about Server, for any finite set of connections and any limit: *)
(* its type invariant, that Drain leaves no goroutine behind, that a       *)
(* server that has listened is not brought down by Stop, and, for a server *)
(* without the spam rule, that the semaphore counts the clients and that   *)
(* the server implements Service.                                          *)
(***************************************************************************)
EXTENDS Server, FiniteSetTheorems, TLAPS

(* The connections that are in one of the states of S.                       *)
In(S) == {c \in Clients : client[c] \in S}

Counted == {"accepted", "serving", "spam", "shut", "release", "leaving"}
Holding == {"serving", "release"}

(* How Start, the listener, the flag and the connections go together.        *)
Positions ==
  /\ up => (start = "listen" <=> listener = "nil")
  /\ start \in {"accept", "admit"} => listener \in {"open", "closed"}
  /\ start \in {"stop", "drain", "drained"} => listener # "open"
  /\ listener = "closed" => shutdown
  /\ stopper = "closing" => shutdown
  /\ listener # "open" => In({"backlog"}) = {}
  /\ admitting = In({"accepted"})
  /\ admitting # {} => start = "admit"

(* The wait group counts the connections from Accept to Done.                *)
GroupCounts == waitgroup = Cardinality(In(Counted))

(* Without the spam rule sem counts the connections that hold a place.       *)
PlacesCount ==
  ~SpamRule => sem = Cardinality(In(Holding)) /\ In({"spam", "shut"}) = {}

NobodyLeft == start = "drained" => In(Counted) = {}

IInv ==
  /\ TypeOK
  /\ Positions
  /\ GroupCounts
  /\ PlacesCount
  /\ NobodyLeft
  /\ PanicOnlyBeforeListening

-----------------------------------------------------------------------------
(* Sets of connections are finite.                                           *)
LEMMA Finite ==
  ASSUME NEW S
  PROVE  IsFiniteSet(In(S)) /\ Cardinality(In(S)) \in Nat
<1>1. In(S) \in SUBSET Clients
  BY DEF In
<1>2. IsFiniteSet(In(S))
  BY <1>1, FS_Subset, ServerAssumption
<1>. QED BY <1>2, FS_CardinalityType

(* How the set of connections in a state changes when one of them moves.     *)
LEMMA Moves ==
  ASSUME TypeOK, NEW c \in Clients, NEW x \in ClientState, NEW S,
         client' = [client EXCEPT ![c] = x]
  PROVE  /\ client' \in [Clients -> ClientState]
         /\ In(S)' = IF x \in S THEN In(S) \cup {c} ELSE In(S) \ {c}
         /\ c \in In(S) <=> client[c] \in S
  BY DEF TypeOK, In

(* A set of connections in some states changes with them only.               *)
LEMMA Untouched ==
  ASSUME TypeOK, NEW c \in Clients, NEW x \in ClientState, NEW S,
         client' = [client EXCEPT ![c] = x], x \in S <=> client[c] \in S
  PROVE  In(S)' = In(S)
<1>1. /\ In(S)' = IF x \in S THEN In(S) \cup {c} ELSE In(S) \ {c}
      /\ c \in In(S) <=> client[c] \in S
  BY Moves
<1>2. CASE x \in S
  BY <1>1, <1>2
<1>3. CASE x \notin S
  BY <1>1, <1>3
<1>. QED BY <1>2, <1>3

(* One more, one less, or as many as before.                                 *)
LEMMA Counts ==
  ASSUME TypeOK, NEW c \in Clients, NEW x \in ClientState, NEW S,
         client' = [client EXCEPT ![c] = x]
  PROVE  Cardinality(In(S))' =
           Cardinality(In(S)) + (IF client[c] \in S
                                 THEN IF x \in S THEN 0 ELSE -1
                                 ELSE IF x \in S THEN 1 ELSE 0)
<1>1. /\ In(S)' = IF x \in S THEN In(S) \cup {c} ELSE In(S) \ {c}
      /\ c \in In(S) <=> client[c] \in S
  BY Moves
<1>2. IsFiniteSet(In(S)) /\ Cardinality(In(S)) \in Nat
  BY Finite
<1>3. Cardinality(In(S) \cup {c}) =
        IF c \in In(S) THEN Cardinality(In(S)) ELSE Cardinality(In(S)) + 1
  BY <1>2, FS_AddElement
<1>4. Cardinality(In(S) \ {c}) =
        IF c \in In(S) THEN Cardinality(In(S)) - 1 ELSE Cardinality(In(S))
  BY <1>2, FS_RemoveElement
<1>. QED BY <1>1, <1>2, <1>3, <1>4

(* Closing the listener moves no connection but those of the backlog.        *)
LEMMA CloseMoves ==
  ASSUME TypeOK, closeListener
  PROVE  /\ client' \in [Clients -> ClientState]
         /\ listener' \in {"nil", "unusable", "closed"}
         /\ up' \in BOOLEAN
         /\ up' <=> listener # "nil"
         /\ listener' = "nil" <=> listener = "nil"
         /\ listener' = "closed" <=> listener \in {"open", "closed"}
         /\ \A S : "out" \notin S /\ "backlog" \notin S => In(S)' = In(S)
         /\ listener = "open" => In({"backlog"})' = {}
         /\ listener # "open" => In({"backlog"})' = In({"backlog"})
  BY DEF TypeOK, closeListener, ClientState, In

(* The initial state satisfies the invariant.                                *)
LEMMA InitIInv == Init => IInv
<1>. SUFFICES ASSUME Init
              PROVE  IInv
  OBVIOUS
<1>1. TypeOK
  <2>1. client \in [Clients -> ClientState]
    BY DEF Init, ClientState
  <2>2. sem \in 0..MaxClients /\ waitgroup \in Int
    BY ServerAssumption DEF Init
  <2>3. admitting \in {{}} \cup {{c} : c \in Clients}
    BY DEF Init
  <2>. QED BY <2>1, <2>2, <2>3 DEF Init, TypeOK
<1>2. \A S : "out" \notin S => In(S) = {}
  BY DEF Init, In
<1>3. /\ In(Counted) = {} /\ In(Holding) = {} /\ In({"spam", "shut"}) = {}
      /\ In({"backlog"}) = {} /\ In({"accepted"}) = {}
  BY <1>2 DEF Counted, Holding
<1>4. Positions
  BY <1>3 DEF Init, Positions
<1>5. GroupCounts /\ PlacesCount /\ NobodyLeft
  BY <1>3, FS_EmptySet DEF Init, GroupCounts, PlacesCount, NobodyLeft
<1>. QED BY <1>1, <1>4, <1>5 DEF Init, IInv, PanicOnlyBeforeListening

-----------------------------------------------------------------------------
(* Steps that move one connection.                                           *)
LEMMA ConnectKeeps ==
  ASSUME IInv, NEW c \in Clients, Connect(c)
  PROVE  IInv'
<1>. USE DEF IInv, Connect
<1>1. "backlog" \in ClientState
  BY DEF ClientState
<1>2. /\ In(Counted)' = In(Counted) /\ In(Holding)' = In(Holding)
      /\ In({"spam", "shut"})' = In({"spam", "shut"})
      /\ In({"accepted"})' = In({"accepted"})
  BY <1>1, Untouched DEF Counted, Holding
<1>3. TypeOK'
  BY <1>1, Moves DEF TypeOK
<1>4. Positions'
  BY <1>2 DEF Positions
<1>. QED BY <1>2, <1>3, <1>4 DEF GroupCounts, PlacesCount, NobodyLeft,
                                 PanicOnlyBeforeListening

(* Accepting a connection counts it in the wait group.                       *)
LEMMA AcceptKeeps ==
  ASSUME IInv, NEW c \in Clients, Accept(c)
  PROVE  IInv'
<1>. USE DEF IInv, Accept
<1>1. "accepted" \in ClientState
  BY DEF ClientState
<1>2. /\ In(Holding)' = In(Holding)
      /\ In({"spam", "shut"})' = In({"spam", "shut"})
  BY <1>1, Untouched DEF Holding
<1>3. /\ In({"accepted"})' = In({"accepted"}) \cup {c}
      /\ In({"backlog"})' = In({"backlog"}) \ {c}
  BY <1>1, Moves
<1>4. Cardinality(In(Counted))' = Cardinality(In(Counted)) + 1
  <2>1. client[c] \notin Counted /\ "accepted" \in Counted
    BY DEF Counted
  <2>. QED BY <1>1, <2>1, Counts
<1>5. TypeOK'
  BY <1>1, Moves DEF TypeOK
<1>6. Positions'
  BY <1>3 DEF Positions, TypeOK
<1>. QED BY <1>2, <1>4, <1>5, <1>6 DEF GroupCounts, PlacesCount, NobodyLeft,
                                       PanicOnlyBeforeListening

(* Admitting it puts one value into sem.                                     *)
LEMMA AdmitKeeps ==
  ASSUME IInv, NEW c \in Clients, Admit(c)
  PROVE  IInv'
<1>. USE DEF IInv, Admit
<1>1. /\ "serving" \in ClientState /\ client[c] = "accepted"
      /\ admitting = {c}
  BY DEF ClientState, Positions, In, TypeOK
<1>2. /\ In(Counted)' = In(Counted)
      /\ In({"spam", "shut"})' = In({"spam", "shut"})
      /\ In({"backlog"})' = In({"backlog"})
  BY <1>1, Untouched DEF Counted
<1>3. In({"accepted"})' = {}
  <2>1. In({"accepted"})' = In({"accepted"}) \ {c}
    BY <1>1, Moves
  <2>. QED BY <1>1, <2>1 DEF Positions
<1>4. Cardinality(In(Holding))' = Cardinality(In(Holding)) + 1
  <2>1. client[c] \notin Holding /\ "serving" \in Holding
    BY <1>1 DEF Holding
  <2>. QED BY <1>1, <2>1, Counts
<1>5. TypeOK'
  BY <1>1, Moves, ServerAssumption DEF TypeOK
<1>6. Positions'
  BY <1>2, <1>3 DEF Positions
<1>. QED BY <1>2, <1>4, <1>5, <1>6 DEF GroupCounts, PlacesCount, NobodyLeft,
                                       PanicOnlyBeforeListening

(* A session that ends keeps its value in sem until Release.                 *)
LEMMA SessionEndsKeeps ==
  ASSUME IInv, NEW c \in Clients, closeClient(c), SessionEnds(c)
  PROVE  IInv'
<1>. USE DEF IInv, closeClient, SessionEnds, move
<1>1. /\ "release" \in ClientState /\ client[c] \in {"serving", "shut"}
      /\ client' = [client EXCEPT ![c] = "release"]
  BY DEF ClientState
<1>2. /\ In(Counted)' = In(Counted)
      /\ In({"backlog"})' = In({"backlog"})
      /\ In({"accepted"})' = In({"accepted"})
  BY <1>1, Untouched DEF Counted
<1>3. PlacesCount'
  <2>1. CASE SpamRule
    BY <2>1 DEF PlacesCount
  <2>2. CASE ~SpamRule
    <3>1. client[c] = "serving"
      BY <1>1, <2>2 DEF PlacesCount, In
    <3>2. In(Holding)' = In(Holding) /\ In({"spam", "shut"})' = In({"spam", "shut"})
      BY <1>1, <3>1, Untouched DEF Holding
    <3>. QED BY <3>2 DEF PlacesCount
  <2>. QED BY <2>1, <2>2
<1>4. TypeOK'
  BY <1>1, Moves DEF TypeOK
<1>5. Positions'
  BY <1>2 DEF Positions
<1>. QED BY <1>2, <1>3, <1>4, <1>5 DEF GroupCounts, NobodyLeft,
                                       PanicOnlyBeforeListening

(* The spam rule closes a connection of the SMTP server.                     *)
LEMMA SpamClosesKeeps ==
  ASSUME IInv, NEW c \in Clients, closeClient(c), SpamCloses(c)
  PROVE  IInv'
<1>. USE DEF IInv, closeClient, SpamCloses, move
<1>1. "spam" \in ClientState
  BY DEF ClientState
<1>2. /\ In(Counted)' = In(Counted)
      /\ In({"backlog"})' = In({"backlog"})
      /\ In({"accepted"})' = In({"accepted"})
  BY <1>1, Untouched DEF Counted
<1>3. TypeOK'
  BY <1>1, Moves DEF TypeOK
<1>4. Positions'
  BY <1>2 DEF Positions
<1>. QED BY <1>2, <1>3, <1>4 DEF GroupCounts, PlacesCount, NobodyLeft,
                                 PanicOnlyBeforeListening

(* Releasing takes one value out of sem.                                     *)
LEMMA ReleaseKeeps ==
  ASSUME IInv, NEW c \in Clients, Release(c)
  PROVE  IInv'
<1>. USE DEF IInv, Release, move
<1>1. PICK x \in {"shut", "leaving"} :
        /\ client' = [client EXCEPT ![c] = x]
        /\ client[c] = (IF x = "shut" THEN "spam" ELSE "release")
  OBVIOUS
<1>2. x \in ClientState
  BY <1>1 DEF ClientState
<1>3. /\ In(Counted)' = In(Counted)
      /\ In({"backlog"})' = In({"backlog"})
      /\ In({"accepted"})' = In({"accepted"})
  BY <1>1, <1>2, Untouched DEF Counted
<1>4. PlacesCount'
  <2>1. CASE SpamRule
    BY <2>1 DEF PlacesCount
  <2>2. CASE ~SpamRule
    <3>1. x = "leaving" /\ client[c] = "release"
      BY <1>1, <2>2 DEF PlacesCount, In
    <3>2. In({"spam", "shut"})' = In({"spam", "shut"})
      BY <1>1, <1>2, <3>1, Untouched
    <3>3. client[c] \in Holding /\ x \notin Holding
      BY <3>1 DEF Holding
    <3>4. Cardinality(In(Holding))' = Cardinality(In(Holding)) - 1
      BY <1>1, <1>2, <3>3, Counts, Finite
    <3>. QED BY <3>2, <3>4, <2>2 DEF PlacesCount
  <2>. QED BY <2>1, <2>2
<1>5. TypeOK'
  <2>1. client' \in [Clients -> ClientState]
    BY <1>1, <1>2, Moves
  <2>2. sem' \in 0..MaxClients
    BY ServerAssumption DEF TypeOK
  <2>. QED BY <2>1, <2>2 DEF TypeOK
<1>6. Positions'
  BY <1>3 DEF Positions
<1>. QED BY <1>3, <1>4, <1>5, <1>6 DEF GroupCounts, NobodyLeft,
                                       PanicOnlyBeforeListening

(* Done takes the connection out of the wait group.                          *)
LEMMA DoneKeeps ==
  ASSUME IInv, NEW c \in Clients, Done(c)
  PROVE  IInv'
<1>. USE DEF IInv, Done, move
<1>1. "gone" \in ClientState
  BY DEF ClientState
<1>2. /\ In(Holding)' = In(Holding)
      /\ In({"spam", "shut"})' = In({"spam", "shut"})
      /\ In({"backlog"})' = In({"backlog"})
      /\ In({"accepted"})' = In({"accepted"})
  BY <1>1, Untouched DEF Holding
<1>3. client[c] \in Counted /\ "gone" \notin Counted /\ c \in In(Counted)
  BY DEF Counted, In
<1>4. Cardinality(In(Counted))' = Cardinality(In(Counted)) - 1
  BY <1>1, <1>3, Counts, Finite
<1>5. TypeOK'
  BY <1>1, Moves DEF TypeOK
<1>6. Positions'
  BY <1>2 DEF Positions
<1>7. NobodyLeft'
  BY <1>3 DEF NobodyLeft
<1>. QED BY <1>2, <1>4, <1>5, <1>6, <1>7 DEF GroupCounts, PlacesCount,
                                             PanicOnlyBeforeListening

-----------------------------------------------------------------------------
(* Steps of Start, Drain and Stop that move no connection but those of the   *)
(* backlog.                                                                  *)
LEMMA ClosingKeeps ==
  ASSUME IInv, ResolveFails \/ DeferredStop \/ StopCloses
  PROVE  IInv'
<1>. USE DEF IInv, ResolveFails, DeferredStop, StopCloses
<1>1. /\ client' \in [Clients -> ClientState]
      /\ listener' \in {"nil", "unusable", "closed"}
      /\ up' \in BOOLEAN
      /\ up' <=> listener # "nil"
      /\ listener' = "nil" <=> listener = "nil"
      /\ listener' = "closed" <=> listener \in {"open", "closed"}
      /\ In({"backlog"})' = {}
  BY CloseMoves DEF Positions
<1>2. /\ In(Counted)' = In(Counted) /\ In(Holding)' = In(Holding)
      /\ In({"spam", "shut"})' = In({"spam", "shut"})
      /\ In({"accepted"})' = In({"accepted"})
  BY CloseMoves DEF Counted, Holding
<1>3. TypeOK'
  BY <1>1 DEF TypeOK
<1>4. Positions'
  BY <1>1, <1>2 DEF Positions, TypeOK
<1>. QED BY <1>1, <1>2, <1>3, <1>4 DEF GroupCounts, PlacesCount, NobodyLeft,
                                       PanicOnlyBeforeListening

(* The steps of Start and Drain other than Accept and Admit.                 *)
LEMMA StartKeeps ==
  ASSUME IInv, Listen \/ ListenFails \/ AcceptFails \/ Stop \/ Drain
  PROVE  IInv'
<1>. USE DEF IInv, Listen, ListenFails, AcceptFails, Stop, Drain
<1>1. \A S : In(S)' = In(S)
  BY DEF In
<1>2. TypeOK'
  BY DEF TypeOK
<1>3. Positions'
  BY <1>1 DEF Positions, TypeOK
<1>4. NobodyLeft'
  <2>1. waitgroup = 0 => In(Counted) = {}
    BY Finite, FS_EmptySet DEF GroupCounts
  <2>. QED BY <1>1, <2>1 DEF NobodyLeft
<1>. QED BY <1>1, <1>2, <1>3, <1>4 DEF Positions, GroupCounts, PlacesCount,
                                       PanicOnlyBeforeListening

(* Every step keeps the invariant.                                           *)
LEMMA NextIInv == IInv /\ [Next]_vars => IInv'
<1>. SUFFICES ASSUME IInv, [Next]_vars
              PROVE  IInv'
  OBVIOUS
<1>1. CASE Next
  BY <1>1, ConnectKeeps, AcceptKeeps, AdmitKeeps, SessionEndsKeeps,
     SpamClosesKeeps, ReleaseKeeps, DoneKeeps, ClosingKeeps, StartKeeps
     DEF Next, listening, handleClient, closeClient
<1>2. CASE UNCHANGED vars
  <2>1. \A S : In(S)' = In(S)
    BY <1>2 DEF vars, In
  <2>. QED BY <1>2, <2>1 DEF vars, IInv, TypeOK, Positions, GroupCounts,
              PlacesCount, NobodyLeft, PanicOnlyBeforeListening
<1>. QED BY <1>1, <1>2

(* The listener is opened once at most, and once closed stays so.            *)
LEMMA ListenerAdvances ==
  ASSUME IInv, up, Next
  PROVE  /\ listener # "nil" => listener' # "nil"
         /\ listener \in {"unusable", "closed"} => listener' = listener
<1>1. CASE Listen \/ ListenFails
  BY <1>1 DEF Listen, ListenFails, IInv, Positions
<1>2. CASE ResolveFails \/ DeferredStop \/ StopCloses
  BY <1>2, CloseMoves DEF ResolveFails, DeferredStop, StopCloses, closeListener, IInv
<1>3. ASSUME NEW c \in Clients,
             Connect(c) \/ handleClient(c) \/ Accept(c) \/ Admit(c)
      PROVE  UNCHANGED listener
  BY <1>3 DEF Connect, handleClient, closeClient, Release, Done, Accept, Admit
<1>4. AcceptFails \/ Drain \/ Stop => UNCHANGED listener
  BY DEF AcceptFails, Drain, Stop
<1>. QED BY <1>1, <1>2, <1>3, <1>4 DEF Next, listening

(* The invariant holds in every reachable state.                             *)
THEOREM Inductive == Spec => []IInv
  BY InitIInv, NextIInv, PTL DEF Spec

(* Every variable keeps its type; in particular the semaphore never holds    *)
(* more than MaxClients values, with or without the spam rule.               *)
THEOREM TypeCorrect == Spec => []TypeOK
<1>1. IInv => TypeOK
  BY DEF IInv
<1>. QED BY Inductive, <1>1, PTL

(* Whenever Drain has returned, every connection that was ever accepted has  *)
(* been served to its end (server.go:178).                                   *)
THEOREM DrainCorrect == Spec => []DrainedMeansQuiet
<1>1. IInv => DrainedMeansQuiet
  BY DEF IInv, TypeOK, NobodyLeft, Positions, DrainedMeansQuiet, In, Counted,
         ClientState
<1>. QED BY Inductive, <1>1, PTL

(* However often and whenever Stop is called, the accept loop panics only    *)
(* in a server that never listened (server.go:141, 172).                     *)
THEOREM StopCorrect == Spec => []PanicOnlyBeforeListening
<1>1. IInv => PanicOnlyBeforeListening
  BY DEF IInv
<1>. QED BY Inductive, <1>1, PTL

(* In a server without the spam rule, such as the POP3 server, the values in *)
(* sem are the places of the clients that are being served                   *)
(* (pop3d/server.go:115, 147).                                               *)
THEOREM PlacesCorrect ==
  ASSUME ~SpamRule
  PROVE  Spec => []SemCountsClients
<1>1. IInv => SemCountsClients
  BY DEF IInv, PlacesCount, SemCountsClients, In, Holding
<1>. QED BY Inductive, <1>1, PTL
-----------------------------------------------------------------------------
(* A server without the spam rule implements Service.                        *)

Left == {"leaving", "gone"}

(* The state of Service in terms of In.                                      *)
Image == <<phase, admitting, In(Holding), In(Left)>>

(* Steps that Service does not see.                                          *)
LEMMA Stutters ==
  ASSUME UNCHANGED Image
  PROVE  [Promise!Next]_(Promise!svars)
  BY DEF Image, Promise!svars, In, Holding, Left

(* A client is taken, served and finished.                                   *)
LEMMA AcceptRefines ==
  ASSUME IInv, NEW c \in Clients, Accept(c)
  PROVE  Promise!Take(c)
<1>. USE DEF IInv, Accept
<1>1. /\ client[c] = "backlog" /\ "accepted" \in ClientState
      /\ client' = [client EXCEPT ![c] = "accepted"]
  BY DEF ClientState
<1>2. In(Holding)' = In(Holding) /\ In(Left)' = In(Left)
  BY <1>1, Untouched DEF Holding, Left
<1>3. c \in In({"backlog"})
  BY <1>1 DEF In
<1>4. listener = "open" /\ listener' = "open"
  BY <1>3 DEF Positions
<1>5. phase = "open" /\ phase' = "open"
  BY <1>4 DEF phase
<1>6. admitting = {}
  BY DEF Positions
<1>. QED BY <1>1, <1>2, <1>5, <1>6 DEF Promise!Take, In, Holding, Left

(* Admitting serves the client that was being taken.                         *)
LEMMA AdmitRefines ==
  ASSUME IInv, ~SpamRule, NEW c \in Clients, Admit(c)
  PROVE  Promise!Serve(c)
<1>. USE DEF IInv, Admit
<1>1. /\ "serving" \in ClientState /\ client[c] = "accepted"
      /\ client' = [client EXCEPT ![c] = "serving"]
      /\ admitting = {c}
  BY DEF ClientState, Positions, In, TypeOK
<1>2. In(Left)' = In(Left)
  BY <1>1, Untouched DEF Left
<1>3. In(Holding)' = In(Holding) \cup {c}
  <2>1. "serving" \in Holding
    BY DEF Holding
  <2>. QED BY <1>1, <2>1, Moves
<1>4. Cardinality(In(Holding)) < MaxClients
  BY DEF PlacesCount
<1>5. phase # "drained" /\ phase' = phase
  BY DEF phase
<1>6. /\ {k \in Clients : client[k] \in {"serving", "release"}} = In(Holding)
      /\ {k \in Clients : client'[k] \in {"serving", "release"}} = In(Holding)'
      /\ {k \in Clients : client[k] \in {"leaving", "gone"}} = In(Left)
      /\ {k \in Clients : client'[k] \in {"leaving", "gone"}} = In(Left)'
  BY DEF In, Holding, Left
<1>7. admitting' = {}
  OBVIOUS
<1>8. Promise!Cardinality(In(Holding)) = Cardinality(In(Holding))
  BY DEF Promise!Cardinality, Cardinality
<1>. QED BY <1>1, <1>2, <1>3, <1>4, <1>5, <1>6, <1>7, <1>8 DEF Promise!Serve

(* Releasing finishes it.                                                    *)
LEMMA ReleaseRefines ==
  ASSUME IInv, ~SpamRule, NEW c \in Clients, Release(c)
  PROVE  Promise!Finish(c)
<1>. USE DEF IInv, Release, move
<1>1. /\ "leaving" \in ClientState /\ client[c] = "release"
      /\ client' = [client EXCEPT ![c] = "leaving"]
  BY DEF ClientState, PlacesCount, In
<1>2. In(Holding)' = In(Holding) \ {c} /\ In(Left)' = In(Left) \cup {c}
  <2>1. /\ "leaving" \in Left /\ "leaving" \notin Holding
    BY DEF Holding, Left
  <2>. QED BY <1>1, <2>1, Moves
<1>3. c \in In(Holding) /\ phase' = phase
  BY <1>1 DEF In, Holding, phase
<1>. QED BY <1>1, <1>2, <1>3 DEF Promise!Finish, In, Holding, Left

(* A connection that moves outside these steps is not seen by Service.       *)
LEMMA ClientStutters ==
  ASSUME IInv, ~SpamRule, NEW c \in Clients,
         Connect(c) \/ closeClient(c) \/ Done(c)
  PROVE  UNCHANGED Image
<1>. USE DEF IInv, move
<1>1. phase' = phase /\ admitting' = admitting
  BY DEF Connect, closeClient, Done, phase
<1>2. CASE Connect(c)
  <2>1. "backlog" \in ClientState
    BY DEF ClientState
  <2>2. In(Holding)' = In(Holding) /\ In(Left)' = In(Left)
    BY <1>2, <2>1, Untouched DEF Connect, Holding, Left
  <2>. QED BY <1>1, <2>2 DEF Image
<1>3. CASE closeClient(c)
  <2>1. client[c] = "serving" /\ client' = [client EXCEPT ![c] = "release"]
    BY <1>3 DEF closeClient, SessionEnds, SpamCloses, PlacesCount, In
  <2>2. "release" \in ClientState
    BY DEF ClientState
  <2>3. In(Holding)' = In(Holding) /\ In(Left)' = In(Left)
    BY <2>1, <2>2, Untouched DEF Holding, Left
  <2>. QED BY <1>1, <2>3 DEF Image
<1>4. CASE Done(c)
  <2>1. "gone" \in ClientState
    BY DEF ClientState
  <2>2. In(Holding)' = In(Holding) /\ In(Left)' = In(Left)
    BY <1>4, <2>1, Untouched DEF Done, Holding, Left
  <2>. QED BY <1>1, <2>2 DEF Image
<1>. QED BY <1>2, <1>3, <1>4

(* Closing an open listener stops Service, closing another does nothing.     *)
LEMMA ClosingRefines ==
  ASSUME IInv, ResolveFails \/ DeferredStop \/ StopCloses
  PROVE  [Promise!Next]_(Promise!svars)
<1>. USE DEF IInv, ResolveFails, DeferredStop, StopCloses
<1>1. In(Holding)' = In(Holding) /\ In(Left)' = In(Left)
  BY CloseMoves DEF Holding, Left
<1>2. /\ listener' = "nil" <=> listener = "nil"
      /\ listener' = "closed" <=> listener \in {"open", "closed"}
      /\ listener' \in {"nil", "unusable", "closed"}
  BY CloseMoves
<1>3. CASE listener = "open"
  <2>1. StopCloses /\ start \notin {"stop", "drain", "drained"}
    BY <1>3 DEF Positions, TypeOK
  <2>2. phase = "open" /\ phase' = "stopping"
    BY <1>2, <1>3, <2>1 DEF phase
  <2>3. Promise!Stop
    BY <1>1, <2>1, <2>2 DEF Promise!Stop, In, Holding, Left
  <2>. QED BY <2>3 DEF Promise!Next
<1>4. CASE listener # "open"
  <2>1. listener' = listener
    BY <1>2, <1>4 DEF TypeOK
  <2>2. (start = "drained") = (start' = "drained")
    OBVIOUS
  <2>3. phase' = phase
    BY <2>1, <2>2 DEF phase
  <2>. QED BY <1>1, <2>3, Stutters DEF Image
<1>. QED BY <1>3, <1>4

(* The steps of Start and Drain stop Service or are not seen.                *)
LEMMA StartRefines ==
  ASSUME IInv, Listen \/ ListenFails \/ AcceptFails \/ Stop \/ Drain
  PROVE  [Promise!Next]_(Promise!svars)
<1>. USE DEF IInv
<1>1. In(Holding)' = In(Holding) /\ In(Left)' = In(Left)
  BY DEF Listen, ListenFails, AcceptFails, Stop, Drain, In
<1>2. CASE Listen \/ AcceptFails \/ Stop
  <2>1. phase' = phase /\ admitting' = admitting
    BY <1>2 DEF Listen, AcceptFails, Stop, phase, Positions
  <2>. QED BY <1>1, <2>1, Stutters DEF Image
<1>3. CASE ListenFails
  <2>1. phase = "open" /\ phase' = "stopping"
    BY <1>3 DEF ListenFails, phase, Positions
  <2>2. Promise!Stop
    BY <1>1, <1>3, <2>1 DEF ListenFails, Promise!Stop, In, Holding, Left
  <2>. QED BY <2>2 DEF Promise!Next
<1>4. CASE Drain
  <2>1. phase = "stopping" /\ phase' = "drained"
    BY <1>4 DEF Drain, phase, Positions, TypeOK
  <2>2. In(Counted) = {}
    BY <1>4, Finite, FS_EmptySet DEF Drain, GroupCounts
  <2>3. In(Holding) = {} /\ admitting = {}
    BY <2>2 DEF In, Counted, Holding, Positions
  <2>4. Promise!Drain
    BY <1>1, <1>4, <2>1, <2>3 DEF Drain, Promise!Drain, In, Holding, Left
  <2>. QED BY <2>4 DEF Promise!Next
<1>. QED BY <1>2, <1>3, <1>4

(* Every step is a step of Service or is not seen.                           *)
LEMMA StepRefines ==
  ASSUME IInv, ~SpamRule, [Next]_vars
  PROVE  [Promise!Next]_(Promise!svars)
<1>1. ASSUME NEW c \in Clients, Accept(c) \/ Admit(c) \/ Release(c)
      PROVE  [Promise!Next]_(Promise!svars)
  <2>1. Promise!Take(c) \/ Promise!Serve(c) \/ Promise!Finish(c)
    BY <1>1, AcceptRefines, AdmitRefines, ReleaseRefines
  <2>. QED BY <2>1 DEF Promise!Next
<1>2. ASSUME NEW c \in Clients,
             Connect(c) \/ closeClient(c) \/ Done(c)
      PROVE  [Promise!Next]_(Promise!svars)
  BY <1>2, ClientStutters, Stutters
<1>3. CASE UNCHANGED vars
  <2>1. UNCHANGED Image
    BY <1>3 DEF vars, Image, phase, In
  <2>. QED BY <2>1, Stutters
<1>. QED BY <1>1, <1>2, <1>3, ClosingRefines, StartRefines
         DEF Next, listening, handleClient

(* A server without the spam rule serves at most MaxClients at a time, takes *)
(* nobody once its listener is closed but the client it was taking, and is   *)
(* drained only when it serves nobody (pop3d/server.go:57-165).              *)
THEOREM PromiseKept ==
  ASSUME ~SpamRule
  PROVE  Spec => KeepsPromise
<1>1. Init => Promise!Init
  BY DEF Init, Promise!Init, phase
<1>2. IInv /\ [Next]_vars => [Promise!Next]_(Promise!svars)
  BY StepRefines
<1>. QED BY Inductive, <1>1, <1>2, PTL DEF Spec, KeepsPromise, Promise!Spec
=============================================================================
