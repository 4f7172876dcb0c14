-------------------------- MODULE ChatServerProofs --------------------------
(***************************************************************************)
(* Proofs about ChatServer for any number of connections, IDs and rooms:   *)
(* its tables agree with one another, and it implements ChatService.       *)
(***************************************************************************)
EXTENDS ChatServer, TLAPS

\* The inductive invariant.  No conjunct is inductive alone: leaving a room
\* keeps RoomsAgree only because the type says where RoomNumber points, and
\* removing the ID of one who leaves keeps IDsAgree only because nobody else
\* has it, which is UniqueIDs, which IDsAgree in turn keeps at each login.
IInv ==
  /\ TypeOK
  /\ RoomsAgree
  /\ UsersAgree
  /\ IDsAgree
  /\ UniqueIDs

LEMMA InitIInv == Init => IInv
  BY DEF Init, IInv, TypeOK, RoomsAgree, UsersAgree, IDsAgree, UniqueIDs,
         LoggedIn, States, RoomNumbers, INVALID

\* A handler that changes no table keeps the invariant.
LEMMA TablesUnchanged == ASSUME IInv, UNCHANGED tables PROVE IInv'
  BY DEF tables, IInv, TypeOK, RoomsAgree, UsersAgree, IDsAgree, UniqueIDs, LoggedIn

LEMMA ConnectKeeps ==
  ASSUME IInv, NEW c \in Conns, ConnectConnection(c)
  PROVE  IInv'
<1>1. CASE c \in Users
  BY <1>1, TablesUnchanged DEF ConnectConnection, tables
<1>2. CASE c \notin Users
  <2> USE <1>2 DEF ConnectConnection, IInv
  <2>1. UserState[c] = "NONE" /\ ~LoggedIn(c)
    BY DEF UsersAgree, LoggedIn
  <2>2. TypeOK'
    BY DEF TypeOK, States
  <2>3. RoomsAgree'
    BY <2>1 DEF RoomsAgree, TypeOK
  <2>4. UsersAgree'
    BY DEF UsersAgree, TypeOK
  <2>5. \A d \in Conns : LoggedIn(d)' <=> LoggedIn(d)
    BY <2>1 DEF LoggedIn, TypeOK
  <2>6. IDsAgree'
    BY <2>5 DEF IDsAgree, TypeOK
  <2>7. UniqueIDs'
    BY <2>5 DEF UniqueIDs, TypeOK
  <2> QED BY <2>2, <2>3, <2>4, <2>6, <2>7
<1> QED BY <1>1, <1>2

\* A user taken out of the room RoomNumber names, if any, is in no room: the
\* two tables still agree.
LEMMA TakenOutOfRoom ==
  ASSUME TypeOK, RoomsAgree, NEW c \in Conns,
         RoomNumber' = [RoomNumber EXCEPT ![c] = INVALID],
         \/ RoomNumber[c] \in RoomNumbers
            /\ Rooms' = [Rooms EXCEPT ![RoomNumber[c]] = @ \ {c}]
         \/ RoomNumber[c] = INVALID /\ Rooms' = Rooms,
         UserState'[c] # "ROOM", \A d \in Conns \ {c} : UserState'[d] = UserState[d]
  PROVE  RoomsAgree'
<1>0. INVALID \notin RoomNumbers
  BY ChatAssumption DEF RoomNumbers, INVALID
<1>1. \A d \in Conns : UserState'[d] = "ROOM" <=> RoomNumber'[d] # INVALID
  BY DEF RoomsAgree, TypeOK
<1>2. \A d \in Conns, r \in RoomNumbers : d \in Rooms'[r] <=> RoomNumber'[d] = r
  <2> SUFFICES ASSUME NEW d \in Conns, NEW r \in RoomNumbers
               PROVE  d \in Rooms'[r] <=> RoomNumber'[d] = r
    OBVIOUS
  <2>1. d \in Rooms[r] <=> RoomNumber[d] = r
    BY DEF RoomsAgree
  <2>2. RoomNumber'[d] = IF d = c THEN INVALID ELSE RoomNumber[d]
    BY DEF TypeOK
  <2>3. Rooms'[r] = IF r = RoomNumber[c] THEN Rooms[r] \ {c} ELSE Rooms[r]
    BY <1>0 DEF TypeOK
  <2> QED BY <1>0, <2>1, <2>2, <2>3
<1> QED BY <1>1, <1>2 DEF RoomsAgree

LEMMA DisconnectKeeps ==
  ASSUME IInv, NEW c \in Conns, DisconnectConnection(c)
  PROVE  IInv'
<1>1. CASE UserState[c] = "NONE"
  BY <1>1, TablesUnchanged DEF DisconnectConnection
<1>2. CASE UserState[c] # "NONE"
  <2> USE <1>2 DEF DisconnectConnection, IInv
  <2>1. TypeOK'
    BY DEF TypeOK, States, RoomNumbers
  <2>2. RoomsAgree'
    <3>1. RoomNumber[c] \in RoomNumbers <=> UserState[c] = "ROOM"
      BY ChatAssumption DEF RoomsAgree, TypeOK, RoomNumbers, INVALID
    <3>2. UserState'[c] # "ROOM" /\ \A d \in Conns \ {c} : UserState'[d] = UserState[d]
      BY DEF TypeOK
    <3>3. RoomNumber[c] \in RoomNumbers \/ RoomNumber[c] = INVALID
      BY DEF TypeOK
    <3> QED BY <3>1, <3>2, <3>3, TakenOutOfRoom
  <2>3. UsersAgree'
    BY DEF UsersAgree, TypeOK
  <2>4. ~LoggedIn(c)' /\ \A d \in Conns \ {c} : LoggedIn(d)' <=> LoggedIn(d)
    BY DEF LoggedIn, TypeOK
  <2>5. \A d \in Conns \ {c} : UserID'[d] = UserID[d]
    BY DEF TypeOK
  <2>6. IDsAgree'
    <3>1. UserIDs' = UserIDs \ {UserID[c]} /\ UserID'[c] = EmptyID
      BY DEF TypeOK
    <3>2. \A d \in Conns : LoggedIn(d)' /\ UserID'[d] # EmptyID => UserID'[d] \in UserIDs'
      <4> SUFFICES ASSUME NEW d \in Conns, LoggedIn(d)', UserID'[d] # EmptyID
                   PROVE  UserID'[d] \in UserIDs'
        OBVIOUS
      <4>1. d # c /\ LoggedIn(d) /\ UserID'[d] = UserID[d] /\ UserID[d] \in UserIDs
        BY <2>4, <2>5 DEF IDsAgree
      <4>2. UserID[d] # UserID[c]
        BY <4>1 DEF UniqueIDs, IDsAgree
      <4> QED BY <3>1, <4>1, <4>2
    <3>3. \A id \in UserIDs' : \E d \in Conns : LoggedIn(d)' /\ UserID'[d] = id
      <4> SUFFICES ASSUME NEW id \in UserIDs'
                   PROVE  \E d \in Conns : LoggedIn(d)' /\ UserID'[d] = id
        OBVIOUS
      <4>1. PICK d \in Conns : LoggedIn(d) /\ UserID[d] = id
        BY <3>1 DEF IDsAgree
      <4>2. d # c
        BY <3>1, <4>1
      <4> QED BY <2>4, <2>5, <4>1, <4>2
    <3>4. \A d \in Conns : ~LoggedIn(d)' => UserID'[d] = EmptyID
      BY <2>4, <2>5, <3>1 DEF IDsAgree
    <3> QED BY <3>2, <3>3, <3>4 DEF IDsAgree, LoggedIn
  <2>7. UniqueIDs'
    BY <2>4, <2>5 DEF UniqueIDs, LoggedIn
  <2> QED BY <2>1, <2>2, <2>3, <2>6, <2>7
<1> QED BY <1>1, <1>2

LEMMA LoginKeeps ==
  ASSUME IInv, NEW c \in Conns, NEW id \in IDs, ProcessPacketLogin(c, id)
  PROVE  IInv'
<1>1. CASE UNCHANGED tables
  BY <1>1, TablesUnchanged
<1>2. CASE /\ UserState[c] = "CONNECT"
           /\ id \notin UserIDs
           /\ UserIDs' = UserIDs \cup {id}
           /\ UserState' = [UserState EXCEPT ![c] = "LOGIN"]
           /\ UserID' = [UserID EXCEPT ![c] = id]
           /\ UNCHANGED <<RoomNumber, Users, Rooms>>
  <2> USE <1>2 DEF IInv
  <2>1. TypeOK'
    BY DEF TypeOK, States
  <2>2. RoomsAgree'
    BY DEF RoomsAgree, TypeOK
  <2>3. UsersAgree'
    BY DEF UsersAgree, TypeOK
  <2>4. /\ ~LoggedIn(c) /\ LoggedIn(c)' /\ UserID'[c] = id
        /\ \A d \in Conns \ {c} : (LoggedIn(d)' <=> LoggedIn(d)) /\ UserID'[d] = UserID[d]
    BY DEF LoggedIn, TypeOK
  <2>5. IDsAgree'
    BY <2>4 DEF IDsAgree, LoggedIn
  <2>6. UniqueIDs'
    <3>1. \A d \in Conns \ {c} : LoggedIn(d) /\ UserID[d] # EmptyID => UserID[d] # id
      BY DEF IDsAgree
    <3> QED BY <2>4, <3>1 DEF UniqueIDs, LoggedIn
  <2> QED BY <2>1, <2>2, <2>3, <2>5, <2>6
<1> QED BY <1>1, <1>2 DEF ProcessPacketLogin, Refuse

\* Both RoomNew and RoomEnter put a user of the lobby in a room.
LEMMA PutInRoomKeeps ==
  ASSUME IInv, NEW c \in Conns, NEW r \in RoomNumbers,
         UserState[c] = "LOGIN", PutInRoom(c, r)
  PROVE  IInv'
<1> USE DEF PutInRoom, IInv
<1>1. TypeOK'
  BY DEF TypeOK, States
<1>2. RoomsAgree'
  BY DEF RoomsAgree, TypeOK, RoomNumbers, INVALID
<1>3. UsersAgree'
  BY DEF UsersAgree, TypeOK
<1>4. \A d \in Conns : LoggedIn(d)' <=> LoggedIn(d)
  BY DEF LoggedIn, TypeOK
<1>5. IDsAgree' /\ UniqueIDs'
  BY <1>4 DEF IDsAgree, UniqueIDs
<1> QED BY <1>1, <1>2, <1>3, <1>5

LEMMA LeaveKeeps ==
  ASSUME IInv, NEW c \in Conns, ProcessPacketRoomLeave(c)
  PROVE  IInv'
<1>1. CASE Refuse(c, "leave", "ROOM")
  BY <1>1, TablesUnchanged DEF Refuse
<1>2. CASE ~Refuse(c, "leave", "ROOM")
  <2> USE <1>2 DEF ProcessPacketRoomLeave, IInv
  <2>1. TypeOK'
    BY DEF TypeOK, States
  <2>2. RoomsAgree'
    <3>0. UserState[c] = "ROOM"
      BY DEF Refuse
    <3>1. RoomNumber[c] \in RoomNumbers
      BY <3>0 DEF RoomsAgree, TypeOK
    <3>2. UserState'[c] # "ROOM" /\ \A d \in Conns \ {c} : UserState'[d] = UserState[d]
      BY DEF TypeOK
    <3> QED BY <3>1, <3>2, TakenOutOfRoom
  <2>3. UsersAgree'
    BY DEF UsersAgree, TypeOK
  <2>4. \A d \in Conns : LoggedIn(d)' <=> LoggedIn(d)
    BY DEF LoggedIn, TypeOK
  <2>5. IDsAgree' /\ UniqueIDs'
    BY <2>4 DEF IDsAgree, UniqueIDs
  <2> QED BY <2>1, <2>2, <2>3, <2>5
<1> QED BY <1>1, <1>2

LEMMA NextIInv == IInv /\ [Next]_vars => IInv'
<1> SUFFICES ASSUME IInv, [Next]_vars PROVE IInv'
  OBVIOUS
<1>1. CASE UNCHANGED vars
  BY <1>1, TablesUnchanged DEF vars, tables
<1>2. ASSUME NEW c \in Conns, ConnectConnection(c) PROVE IInv'
  BY <1>2, ConnectKeeps
<1>3. ASSUME NEW c \in Conns, DisconnectConnection(c) PROVE IInv'
  BY <1>3, DisconnectKeeps
<1>4. ASSUME NEW c \in Conns, NEW id \in IDs, ProcessPacketLogin(c, id) PROVE IInv'
  BY <1>4, LoginKeeps
<1>5. ASSUME NEW c \in Conns, ProcessPacketRoomNew(c) PROVE IInv'
  BY <1>5, TablesUnchanged, PutInRoomKeeps DEF ProcessPacketRoomNew, Refuse
<1>6. ASSUME NEW c \in Conns, NEW r, ProcessPacketRoomEnter(c, r) PROVE IInv'
  BY <1>6, TablesUnchanged, PutInRoomKeeps DEF ProcessPacketRoomEnter, Refuse
<1>7. ASSUME NEW c \in Conns, ProcessPacketRoomLeave(c) PROVE IInv'
  BY <1>7, LeaveKeeps
<1>8. ASSUME NEW c \in Conns, ProcessPacketRoomChat(c) PROVE IInv'
  BY <1>8, TablesUnchanged DEF ProcessPacketRoomChat, Refuse
<1>9. ASSUME NEW c \in Conns, ChatStep(c) PROVE IInv'
  BY <1>2, <1>3, <1>4, <1>5, <1>6, <1>7, <1>8, <1>9 DEF ChatStep
<1>10. ASSUME NEW c \in Conns, ProcessPacketEcho(c) PROVE IInv'
  BY <1>10, TablesUnchanged DEF ProcessPacketEcho
<1>11. CASE Ignore
  BY <1>11, TablesUnchanged DEF Ignore
<1> QED BY <1>1, <1>9, <1>10, <1>11 DEF Next

\* In the echo test mode the server has no users: the mode is fixed, and no
\* handler that it runs touches a table.
EchoAlone == IsEchoTestMode => \A c \in Conns : UserState[c] = "NONE"

LEMMA InitEchoAlone == Init => EchoAlone
  BY DEF Init, EchoAlone

LEMMA NextEchoAlone == EchoAlone /\ [Next]_vars => EchoAlone'
<1> SUFFICES ASSUME EchoAlone, [Next]_vars PROVE EchoAlone'
  OBVIOUS
<1>1. CASE UNCHANGED vars
  BY <1>1 DEF vars, EchoAlone
<1>2. CASE Next /\ IsEchoTestMode
  <2>1. UNCHANGED tables /\ UNCHANGED IsEchoTestMode
    BY <1>2 DEF Next, Ignore, ProcessPacketEcho
  <2> QED BY <1>2, <2>1 DEF tables, EchoAlone
<1>3. CASE Next /\ ~IsEchoTestMode
  BY <1>3 DEF Next, EchoAlone
<1> QED BY <1>1, <1>2, <1>3

LEMMA EchoInvariant == Spec => []EchoAlone
  BY InitEchoAlone, NextEchoAlone, PTL DEF Spec

\* The tables of the server always agree with one another.
THEOREM Agreement == Spec => []IInv
  BY InitIInv, NextIInv, PTL DEF Spec

\* The tables stay well typed: no room number that is kept is out of range.
THEOREM TypeCorrect == Spec => []TypeOK
<1>1. IInv => TypeOK
  BY DEF IInv
<1> QED BY <1>1, Agreement, PTL

\* No handler finds a user's room number and the members of the rooms apart.
THEOREM RoomsMatch == Spec => []RoomsAgree
<1>1. IInv => RoomsAgree
  BY DEF IInv
<1> QED BY <1>1, Agreement, PTL

\* m_Users keeps nobody that left and misses nobody that is there.
THEOREM UsersMatch == Spec => []UsersAgree
<1>1. IInv => UsersAgree
  BY DEF IInv
<1> QED BY <1>1, Agreement, PTL

\* An ID is in m_UserIDs exactly as long as its user is logged in.
THEOREM IDsMatch == Spec => []IDsAgree
<1>1. IInv => IDsAgree
  BY DEF IInv
<1> QED BY <1>1, Agreement, PTL

\* A login never gives away an ID in use.
THEOREM OneUserPerID == Spec => []UniqueIDs
<1>1. IInv => UniqueIDs
  BY DEF IInv
<1> QED BY <1>1, Agreement, PTL

----------------------------------------------------------------------------
(* The refinement.  Under the invariant the server's tables are what       *)
(* ChatService derives: a room's members, the names taken.                 *)

LEMMA Places ==
  /\ Place["NONE"] = "none" /\ Place["CONNECT"] = "guest"
  /\ Place["LOGIN"] = "lobby" /\ Place["ROOM"] = "room"
  BY DEF Place

LEMMA MembersOfRoom ==
  ASSUME IInv, NEW r \in RoomNumbers
  PROVE  Service!Members(r) = Rooms[r]
<1>1. \A c \in Conns : Place[UserState[c]] = "room" <=> UserState[c] = "ROOM"
  <2> TAKE c \in Conns
  <2>1. UserState[c] \in {"NONE", "CONNECT", "LOGIN", "ROOM"}
    BY DEF IInv, TypeOK, States
  <2> QED BY <2>1, Places
<1>2. \A c \in Conns : c \in Rooms[r] <=> UserState[c] = "ROOM" /\ RoomNumber[c] = r
  <2>1. r # INVALID
    BY ChatAssumption DEF RoomNumbers, INVALID
  <2> QED BY <2>1 DEF IInv, RoomsAgree
<1>3. Rooms[r] \subseteq Conns
  BY DEF IInv, TypeOK
<1> QED BY ZenonT(30), <1>1, <1>2, <1>3 DEF Service!Members, Whereabouts

LEMMA NamesTaken ==
  ASSUME IInv, NEW id
  PROVE  /\ id \in UserIDs => Service!Taken(id)
         /\ id # EmptyID /\ Service!Taken(id) => id \in UserIDs
<1>1. \A c \in Conns : Place[UserState[c]] \in {"lobby", "room"} <=> LoggedIn(c)
  <2> TAKE c \in Conns
  <2>1. UserState[c] \in {"NONE", "CONNECT", "LOGIN", "ROOM"}
    BY DEF IInv, TypeOK, States
  <2> QED BY <2>1, Places DEF LoggedIn
<1>2. Service!Taken(id) <=> \E c \in Conns : LoggedIn(c) /\ UserID[c] = id
  BY <1>1 DEF Service!Taken, Service!Named, Whereabouts
<1> QED BY <1>2 DEF IInv, IDsAgree

\* Where one user's row of m_UsersInfo changes, only that user moves.
LEMMA RowChanges ==
  ASSUME IInv, NEW c \in Conns, NEW s \in States, NEW id, NEW r,
         UserState' = [UserState EXCEPT ![c] = s],
         UserID' = [UserID EXCEPT ![c] = id],
         RoomNumber' = [RoomNumber EXCEPT ![c] = r]
  PROVE  Whereabouts' =
           [Whereabouts EXCEPT ![c] = [place |-> Place[s], name |-> id, room |-> r]]
  BY DEF IInv, TypeOK, Whereabouts

\* The rows of the four states are the places of the service.
LEMMA PlaceRecords ==
  ASSUME NEW id, NEW r
  PROVE  /\ [place |-> Place["NONE"], name |-> EmptyID, room |-> INVALID] = Service!Nowhere
         /\ [place |-> Place["CONNECT"], name |-> EmptyID, room |-> INVALID] = Service!Guest
         /\ [place |-> Place["LOGIN"], name |-> id, room |-> INVALID] = Service!Lobby(id)
         /\ [place |-> Place["ROOM"], name |-> id, room |-> r] = Service!InRoom(id, r)
  BY Places DEF Service!Nowhere, Service!Guest, Service!Lobby, Service!InRoom, INVALID

LEMMA InitService == Init => Service!Init
  BY Places DEF Init, Service!Init, Service!Nowhere, Whereabouts, INVALID

\* A request the state of the user does not allow is refused alike.
LEMMA RefuseService ==
  ASSUME IInv, NEW c \in Conns, NEW kind, NEW s \in States, Refuse(c, kind, s)
  PROVE  Service!Refuse(c, kind, Place[s])
<1>1. Whereabouts' = Whereabouts /\ Whereabouts[c].place = Place[UserState[c]]
  BY DEF Refuse, tables, Whereabouts
<1>2. UserState[c] \in {"NONE", "CONNECT", "LOGIN", "ROOM"}
  BY DEF IInv, TypeOK, States
<1>3. Place[UserState[c]] # Place[s]
  BY <1>2, Places DEF Refuse, States
<1>4. Service!Refusal[Place[UserState[c]]] = WrongState[UserState[c]]
  BY <1>2, Places DEF Service!Refusal, WrongState
<1> QED BY <1>1, <1>3, <1>4
        DEF Refuse, Respond, Packet, Service!Refuse, Service!Answer

\* Nobody but the users in rooms has a room, nobody but those logged in a name.
LEMMA Rows ==
  ASSUME IInv, NEW c \in Conns
  PROVE  /\ UserState[c] \in {"NONE", "CONNECT", "LOGIN", "ROOM"}
         /\ UserState[c] # "ROOM" => RoomNumber[c] = INVALID
         /\ UserState[c] \in {"NONE", "CONNECT"} => UserID[c] = EmptyID
         /\ Whereabouts[c].place = Place[UserState[c]]
         /\ Whereabouts[c].name = UserID[c]
         /\ Whereabouts[c].room = RoomNumber[c]
  BY DEF IInv, TypeOK, States, RoomsAgree, IDsAgree, LoggedIn, Whereabouts

LEMMA ConnectService ==
  ASSUME IInv, NEW c \in Conns, ConnectConnection(c)
  PROVE  Service!Arrive(c) \/ Service!Silent
<1>1. CASE c \in Users
  BY <1>1 DEF ConnectConnection, Service!Silent, Whereabouts
<1>2. CASE c \notin Users
  <2>1. UserState[c] = "NONE"
    BY <1>2 DEF IInv, UsersAgree
  <2>2. UserID' = [UserID EXCEPT ![c] = EmptyID] /\ RoomNumber' = [RoomNumber EXCEPT ![c] = INVALID]
    BY <2>1, Rows DEF ConnectConnection, IInv, TypeOK
  <2>3. UserState' = [UserState EXCEPT ![c] = "CONNECT"]
    BY <1>2 DEF ConnectConnection
  <2>4. Whereabouts' = [Whereabouts EXCEPT ![c] =
                          [place |-> Place["CONNECT"], name |-> EmptyID, room |-> INVALID]]
    BY <2>2, <2>3, RowChanges DEF States
  <2>5. Whereabouts' = [Whereabouts EXCEPT ![c] = Service!Guest]
    BY <2>4, PlaceRecords
  <2> QED BY <1>2, <2>1, <2>5, Rows, Places DEF ConnectConnection, Service!Arrive
<1> QED BY <1>1, <1>2

LEMMA DisconnectService ==
  ASSUME IInv, NEW c \in Conns, DisconnectConnection(c)
  PROVE  Service!Depart(c) \/ Service!Silent
<1>1. CASE UserState[c] = "NONE"
  BY <1>1 DEF DisconnectConnection, tables, Service!Silent, Whereabouts
<1>2. CASE UserState[c] # "NONE"
  <2>1. /\ UserState' = [UserState EXCEPT ![c] = "NONE"]
        /\ UserID' = [UserID EXCEPT ![c] = EmptyID]
        /\ RoomNumber' = [RoomNumber EXCEPT ![c] = INVALID]
    BY <1>2 DEF DisconnectConnection
  <2>2. Whereabouts' = [Whereabouts EXCEPT ![c] =
                          [place |-> Place["NONE"], name |-> EmptyID, room |-> INVALID]]
    BY <2>1, RowChanges DEF States
  <2>3. Whereabouts' = [Whereabouts EXCEPT ![c] = Service!Nowhere]
    BY <2>2, PlaceRecords
  <2>4. Whereabouts[c].place # "none"
    BY <1>2, Rows, Places
  <2> QED BY <1>2, <2>3, <2>4 DEF DisconnectConnection, Service!Depart
<1> QED BY <1>1, <1>2

LEMMA LoginService ==
  ASSUME IInv, NEW c \in Conns, NEW id \in IDs, ProcessPacketLogin(c, id)
  PROVE  Service!Login(c, id) \/ Service!Refuse(c, "login", "guest")
<1>1. CASE Refuse(c, "login", "CONNECT")
  BY <1>1, RefuseService, Places DEF States
<1>2. CASE ~Refuse(c, "login", "CONNECT")
  <2>1. UserState[c] = "CONNECT" /\ Whereabouts[c].place = "guest"
    BY <1>2, Rows, Places DEF ProcessPacketLogin
  <2>2. CASE id \notin UserIDs
    <3>1. RoomNumber' = [RoomNumber EXCEPT ![c] = INVALID]
      BY <1>2, <2>1, <2>2, Rows DEF ProcessPacketLogin, IInv, TypeOK
    <3>5. /\ UserState' = [UserState EXCEPT ![c] = "LOGIN"]
          /\ UserID' = [UserID EXCEPT ![c] = id]
      BY <1>2, <2>2 DEF ProcessPacketLogin
    <3>6. Whereabouts' = [Whereabouts EXCEPT ![c] =
                            [place |-> Place["LOGIN"], name |-> id, room |-> INVALID]]
      BY <3>1, <3>5, RowChanges DEF States
    <3>2. Whereabouts' = [Whereabouts EXCEPT ![c] = Service!Lobby(id)]
      BY <3>6, PlaceRecords
    <3>3. id = EmptyID \/ ~Service!Taken(id)
      BY <2>2, NamesTaken
    <3>4. out' = {Service!Answer(c, "login", "SUCCESS")}
      BY <1>2, <2>2 DEF ProcessPacketLogin, Respond, Packet, Service!Answer
    <3> QED BY <2>1, <3>2, <3>3, <3>4 DEF Service!Login
  <2>3. CASE id \in UserIDs
    <3>1. Service!Taken(id)
      BY <2>3, NamesTaken
    <3>2. Whereabouts' = Whereabouts /\ out' = {Service!Answer(c, "login", "FAIL_SAME_ID")}
      BY <1>2, <2>3 DEF ProcessPacketLogin, tables, Whereabouts, Respond, Packet, Service!Answer
    <3> QED BY <2>1, <3>1, <3>2 DEF Service!Login
  <2> QED BY <2>2, <2>3
<1> QED BY <1>1, <1>2

LEMMA JoinService ==
  ASSUME IInv, NEW c \in Conns, NEW r \in RoomNumbers, NEW kind,
         UserState[c] = "LOGIN", PutInRoom(c, r), Respond(c, kind, "SUCCESS")
  PROVE  Service!Join(c, r, kind)
<1>1. UserID' = [UserID EXCEPT ![c] = UserID[c]]
  BY DEF PutInRoom, IInv, TypeOK
<1>3. /\ UserState' = [UserState EXCEPT ![c] = "ROOM"]
      /\ RoomNumber' = [RoomNumber EXCEPT ![c] = r]
  BY DEF PutInRoom
<1>4. Whereabouts' = [Whereabouts EXCEPT ![c] =
                        [place |-> Place["ROOM"], name |-> UserID[c], room |-> r]]
  BY <1>1, <1>3, RowChanges DEF States
<1>5. UserID[c] = Whereabouts[c].name
  BY Rows
<1>2. Whereabouts' = [Whereabouts EXCEPT ![c] = Service!InRoom(Whereabouts[c].name, r)]
  BY <1>4, <1>5, PlaceRecords
<1> QED BY <1>2 DEF Respond, Packet, Service!Join, Service!Answer

LEMMA RoomNewService ==
  ASSUME IInv, NEW c \in Conns, ProcessPacketRoomNew(c)
  PROVE  Service!NewRoom(c) \/ Service!Refuse(c, "new", "lobby")
<1>1. CASE Refuse(c, "new", "LOGIN")
  BY <1>1, RefuseService, Places DEF States
<1>2. ASSUME UserState[c] = "LOGIN", NEW r \in RoomNumbers, FirstEmpty(r), PutInRoom(c, r),
             Respond(c, "new", "SUCCESS")
      PROVE  Service!NewRoom(c)
  BY <1>2, JoinService, MembersOfRoom, Rows, Places
     DEF FirstEmpty, Service!NewRoom, Service!Rooms, RoomNumbers
<1>3. ASSUME UserState[c] = "LOGIN", \A r \in RoomNumbers : Rooms[r] # {},
             Respond(c, "new", "FAIL_MAX_MAKE_ROOM"), UNCHANGED tables
      PROVE  Service!NewRoom(c)
  <2>1. Whereabouts' = Whereabouts
    BY <1>3 DEF tables, Whereabouts
  <2> QED BY <1>3, <2>1, MembersOfRoom, Rows, Places
          DEF Respond, Packet, Service!NewRoom, Service!Rooms, RoomNumbers, Service!Answer
<1> QED BY <1>1, <1>2, <1>3 DEF ProcessPacketRoomNew

LEMMA RoomEnterService ==
  ASSUME IInv, NEW c \in Conns, NEW r \in RoomNumbers \cup {INVALID, MaxRoomCount},
         ProcessPacketRoomEnter(c, r)
  PROVE  Service!EnterRoom(c, r) \/ Service!Refuse(c, "enter", "lobby")
<1> USE DEF Service!Rooms, RoomNumbers
<1>1. CASE Refuse(c, "enter", "LOGIN")
  BY <1>1, RefuseService, Places DEF States
<1>2. ASSUME UserState[c] = "LOGIN", r \in RoomNumbers, Rooms[r] # {}, PutInRoom(c, r),
             Respond(c, "enter", "SUCCESS")
      PROVE  Service!EnterRoom(c, r)
  BY <1>2, JoinService, MembersOfRoom, Rows, Places DEF Service!EnterRoom
<1>3. ASSUME UserState[c] = "LOGIN", UNCHANGED tables, r = INVALID \/ r >= MaxRoomCount,
             Respond(c, "enter", "FAIL_WRONG_ROOM_NUMBER")
      PROVE  Service!EnterRoom(c, r)
  <2>1. Whereabouts' = Whereabouts /\ r \notin Service!Rooms
    BY <1>3, ChatAssumption DEF tables, Whereabouts, INVALID
  <2> QED BY <1>3, <2>1, Rows, Places DEF Respond, Packet, Service!EnterRoom, Service!Answer
<1>4. ASSUME UserState[c] = "LOGIN", UNCHANGED tables, r \in RoomNumbers, Rooms[r] = {},
             Respond(c, "enter", "FAIL_NOT_EXIST_ROOM")
      PROVE  Service!EnterRoom(c, r)
  <2>1. Whereabouts' = Whereabouts /\ Service!Members(r) = {}
    BY <1>4, MembersOfRoom DEF tables, Whereabouts
  <2> QED BY <1>4, <2>1, Rows, Places DEF Respond, Packet, Service!EnterRoom, Service!Answer
<1> QED BY <1>1, <1>2, <1>3, <1>4 DEF ProcessPacketRoomEnter

LEMMA RoomLeaveService ==
  ASSUME IInv, NEW c \in Conns, ProcessPacketRoomLeave(c)
  PROVE  Service!LeaveRoom(c) \/ Service!Refuse(c, "leave", "room")
<1>1. CASE Refuse(c, "leave", "ROOM")
  BY <1>1, RefuseService, Places DEF States
<1>2. CASE ~Refuse(c, "leave", "ROOM")
  <2>1. UserState[c] = "ROOM"
    BY <1>2 DEF ProcessPacketRoomLeave
  <2>2. c \in Rooms[RoomNumber[c]]
    BY <2>1 DEF IInv, TypeOK, RoomsAgree
  <2>3. UserID' = [UserID EXCEPT ![c] = UserID[c]]
    BY <1>2 DEF ProcessPacketRoomLeave, IInv, TypeOK
  <2>6. /\ UserState' = [UserState EXCEPT ![c] = "LOGIN"]
        /\ RoomNumber' = [RoomNumber EXCEPT ![c] = INVALID]
    BY <1>2 DEF ProcessPacketRoomLeave
  <2>7. Whereabouts' = [Whereabouts EXCEPT ![c] =
                          [place |-> Place["LOGIN"], name |-> UserID[c], room |-> INVALID]]
    BY <2>3, <2>6, RowChanges DEF States
  <2>8. UserID[c] = Whereabouts[c].name
    BY Rows
  <2>4. Whereabouts' = [Whereabouts EXCEPT ![c] = Service!Lobby(Whereabouts[c].name)]
    BY <2>7, <2>8, PlaceRecords
  <2>5. out' = {Service!Answer(c, "leave", "SUCCESS")}
    BY <1>2, <2>2 DEF ProcessPacketRoomLeave, Respond, Packet, Service!Answer
  <2> QED BY <2>1, <2>4, <2>5, Rows, Places DEF Service!LeaveRoom
<1> QED BY <1>1, <1>2

LEMMA RoomChatService ==
  ASSUME IInv, NEW c \in Conns, ProcessPacketRoomChat(c)
  PROVE  Service!Chat(c) \/ Service!Refuse(c, "chat", "room")
<1>1. CASE Refuse(c, "chat", "ROOM")
  BY <1>1, RefuseService, Places DEF States
<1>2. CASE ~Refuse(c, "chat", "ROOM")
  <2>1. UserState[c] = "ROOM"
    BY <1>2 DEF ProcessPacketRoomChat
  <2>2. RoomNumber[c] \in RoomNumbers
    BY <2>1 DEF IInv, TypeOK, RoomsAgree
  <2>3. Service!Members(Whereabouts[c].room) = Rooms[RoomNumber[c]]
    BY <2>2, MembersOfRoom, Rows
  <2>4. Whereabouts' = Whereabouts
    BY <1>2 DEF ProcessPacketRoomChat, tables, Whereabouts
  <2>5. out' = {Service!Answer(d, "notify", Whereabouts[c].name) :
                  d \in Service!Members(Whereabouts[c].room)}
                 \cup {Service!Answer(c, "chat", "SUCCESS")}
    BY <1>2, <2>3, Rows DEF ProcessPacketRoomChat, Packet, Service!Answer
  <2> QED BY <2>1, <2>4, <2>5, Rows, Places DEF Service!Chat
<1> QED BY <1>1, <1>2

\* A packet comes back only where nobody is a guest: the service is not open.
LEMMA EchoService ==
  ASSUME EchoAlone, IsEchoTestMode, NEW c \in Conns, ProcessPacketEcho(c)
  PROVE  Service!Echo(c)
<1>1. Whereabouts' = Whereabouts
  BY DEF ProcessPacketEcho, tables, Whereabouts
<1>2. \A d \in Conns : Whereabouts[d].place = "none"
  BY Places DEF EchoAlone, Whereabouts
<1> QED BY <1>1, <1>2
        DEF ProcessPacketEcho, Respond, Packet, Service!Echo, Service!Answer

LEMMA NextService == IInv /\ EchoAlone /\ [Next]_vars => [Service!Next]_<<Whereabouts, out>>
<1> SUFFICES ASSUME IInv, EchoAlone, [Next]_vars PROVE [Service!Next]_<<Whereabouts, out>>
  OBVIOUS
<1>1. CASE UNCHANGED vars
  BY <1>1 DEF vars, Whereabouts
<1>2. ASSUME NEW c \in Conns, ConnectConnection(c) PROVE Service!Next
  BY <1>2, ConnectService DEF Service!Next
<1>3. ASSUME NEW c \in Conns, DisconnectConnection(c) PROVE Service!Next
  BY <1>3, DisconnectService DEF Service!Next
<1>4. ASSUME NEW c \in Conns, NEW id \in IDs, ProcessPacketLogin(c, id) PROVE Service!Next
  BY <1>4, LoginService DEF Service!Next
<1>5. ASSUME NEW c \in Conns, ProcessPacketRoomNew(c) PROVE Service!Next
  BY <1>5, RoomNewService DEF Service!Next
<1>6. ASSUME NEW c \in Conns, NEW r \in RoomNumbers \cup {INVALID, MaxRoomCount},
             ProcessPacketRoomEnter(c, r)
      PROVE  Service!Next
  BY <1>6, RoomEnterService DEF Service!Next, Service!Rooms, RoomNumbers, INVALID
<1>7. ASSUME NEW c \in Conns, ProcessPacketRoomLeave(c) PROVE Service!Next
  BY <1>7, RoomLeaveService DEF Service!Next
<1>8. ASSUME NEW c \in Conns, ProcessPacketRoomChat(c) PROVE Service!Next
  BY <1>8, RoomChatService DEF Service!Next
<1>9. ASSUME NEW c \in Conns, ChatStep(c) PROVE Service!Next
  BY <1>2, <1>3, <1>4, <1>5, <1>6, <1>7, <1>8, <1>9 DEF ChatStep
<1>10. ASSUME NEW c \in Conns, IsEchoTestMode, ProcessPacketEcho(c) PROVE Service!Next
  BY <1>10, EchoService DEF Service!Next
<1>11. CASE Ignore
  BY <1>11 DEF Ignore, tables, Whereabouts, Service!Silent, Service!Next
<1> QED BY <1>1, <1>9, <1>10, <1>11 DEF Next

\* The chat server keeps the promises of ChatService: every answer it gives
\* is the one ChatService gives where the users are.
THEOREM Implementation == Spec => Implements
<1>1. Init => Service!Init
  BY InitService
<1>2. IInv /\ EchoAlone /\ [Next]_vars => [Service!Next]_<<Whereabouts, out>>
  BY NextService
<1> QED BY <1>1, <1>2, Agreement, EchoInvariant, PTL DEF Spec, Implements, Service!Spec
=============================================================================
