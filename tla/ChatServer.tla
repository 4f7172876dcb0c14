----------------------------- MODULE ChatServer -----------------------------
(***************************************************************************)
(* The application: ChatServer's tables of users, names and rooms, and the *)
(* handlers a logic thread runs on the messages of IOCPServer.  A handler  *)
(* is one action: m_hLogicIOCP runs one logic thread at a time.  Session   *)
(* lets notices and packets of a slot come in any order, so here they do.  *)
(* Room numbers requested below -1 index m_Rooms out of bounds and are not *)
(* among the requests.  With one logic thread the server runs in the echo  *)
(* test mode, where it has no users.                                       *)
(***************************************************************************)
EXTENDS Integers

CONSTANTS
  Conns,          \* connection indexes
  IDs,            \* the user IDs requested
  EmptyID,        \* L"", which IDs may contain
  MaxRoomCount    \* m_MaxRoomCount

INVALID == -1

ASSUME ChatAssumption == MaxRoomCount \in Nat

VARIABLES
  UserState, UserID, RoomNumber,   \* m_UsersInfo, by connection
  Users,                           \* m_Users
  UserIDs,                         \* m_UserIDs
  Rooms,                           \* m_Rooms
  IsEchoTestMode,                  \* m_IsEchoTestMode
  out                              \* the packets the last handler sent

tables == <<UserState, UserID, RoomNumber, Users, UserIDs, Rooms>>
vars == <<UserState, UserID, RoomNumber, Users, UserIDs, Rooms, IsEchoTestMode, out>>

RoomNumbers == 0..(MaxRoomCount - 1)
States == {"NONE", "CONNECT", "LOGIN", "ROOM"}
LoggedIn(c) == UserState[c] \in {"LOGIN", "ROOM"}

Init ==
  /\ UserState = [c \in Conns |-> "NONE"]
  /\ UserID = [c \in Conns |-> EmptyID]
  /\ RoomNumber = [c \in Conns |-> INVALID]
  /\ Users = {}
  /\ UserIDs = {}
  /\ Rooms = [r \in RoomNumbers |-> {}]
  /\ IsEchoTestMode \in BOOLEAN
  /\ out = {}

ConnectConnection(c) ==
  /\ IF c \in Users
     THEN UNCHANGED <<UserState, Users>>
     ELSE /\ UserState' = [UserState EXCEPT ![c] = "CONNECT"]
          /\ Users' = Users \cup {c}
  /\ out' = {}
  /\ UNCHANGED <<UserID, RoomNumber, UserIDs, Rooms>>

\* Mutant: one who leaves from a room keeps the ID, a case without the others.
DisconnectNoFallThrough(c) ==
  /\ Rooms' = IF UserState[c] = "ROOM"
              THEN [Rooms EXCEPT ![RoomNumber[c]] = @ \ {c}] ELSE Rooms
  /\ Users' = Users \ {c}
  /\ UserIDs' = IF UserState[c] = "LOGIN" THEN UserIDs \ {UserID[c]} ELSE UserIDs
  /\ UserState' = [UserState EXCEPT ![c] = "NONE"]
  /\ UserID' = [UserID EXCEPT ![c] = EmptyID]
  /\ RoomNumber' = [RoomNumber EXCEPT ![c] = INVALID]
  /\ out' = {}

\* Mutant: a guest who leaves stays in m_Users.
DisconnectKeepsGuest(c) ==
  /\ IF UserState[c] \in {"NONE", "CONNECT"}
     THEN UserState' = [UserState EXCEPT ![c] = "NONE"] /\ UNCHANGED <<Rooms, Users, UserIDs>>
     ELSE /\ Rooms' = IF UserState[c] = "ROOM"
                      THEN [Rooms EXCEPT ![RoomNumber[c]] = @ \ {c}] ELSE Rooms
          /\ Users' = Users \ {c}
          /\ UserIDs' = UserIDs \ {UserID[c]}
          /\ UserState' = [UserState EXCEPT ![c] = "NONE"]
  /\ UserID' = [UserID EXCEPT ![c] = EmptyID]
  /\ RoomNumber' = [RoomNumber EXCEPT ![c] = INVALID]
  /\ out' = {}

\* The switch falls through from ROOM to LOGIN and CONNECT.
DisconnectConnection(c) ==
  /\ IF UserState[c] = "NONE"
     THEN UNCHANGED tables
     ELSE /\ Rooms' = IF UserState[c] = "ROOM"
                      THEN [Rooms EXCEPT ![RoomNumber[c]] = @ \ {c}] ELSE Rooms
          /\ Users' = Users \ {c}
          /\ UserIDs' = UserIDs \ {UserID[c]}
          /\ UserState' = [UserState EXCEPT ![c] = "NONE"]
          /\ UserID' = [UserID EXCEPT ![c] = EmptyID]
          /\ RoomNumber' = [RoomNumber EXCEPT ![c] = INVALID]
  /\ out' = {}

Packet(c, kind, result) == [to |-> c, kind |-> kind, result |-> result]
Respond(c, kind, result) == out' = {Packet(c, kind, result)}

\* The results of a request that the state of the user does not allow.
WrongState == [NONE |-> "FAIL_IN_NONE", CONNECT |-> "FAIL_IN_LOGIN",
               LOGIN |-> "FAIL_IN_LOBBY", ROOM |-> "FAIL_IN_ROOM"]

Refuse(c, kind, allowed) ==
  /\ UserState[c] # allowed
  /\ Respond(c, kind, WrongState[UserState[c]])
  /\ UNCHANGED tables

\* Mutant: m_UserIDs is not looked up.
LoginUnchecked(c, id) ==
  \/ Refuse(c, "login", "CONNECT")
  \/ /\ UserState[c] = "CONNECT"
     /\ UserIDs' = UserIDs \cup {id}
     /\ UserState' = [UserState EXCEPT ![c] = "LOGIN"]
     /\ UserID' = [UserID EXCEPT ![c] = id]
     /\ Respond(c, "login", "SUCCESS")
     /\ UNCHANGED <<RoomNumber, Users, Rooms>>

ProcessPacketLogin(c, id) ==
  \/ Refuse(c, "login", "CONNECT")
  \/ /\ UserState[c] = "CONNECT"
     /\ id \notin UserIDs
     /\ UserIDs' = UserIDs \cup {id}
     /\ UserState' = [UserState EXCEPT ![c] = "LOGIN"]
     /\ UserID' = [UserID EXCEPT ![c] = id]
     /\ Respond(c, "login", "SUCCESS")
     /\ UNCHANGED <<RoomNumber, Users, Rooms>>
  \/ /\ UserState[c] = "CONNECT"
     /\ id \in UserIDs
     /\ Respond(c, "login", "FAIL_SAME_ID")
     /\ UNCHANGED tables

\* Mutant: the room number kept is one too high.
PutInNextRoom(c, r) ==
  /\ Rooms' = [Rooms EXCEPT ![r] = @ \cup {c}]
  /\ RoomNumber' = [RoomNumber EXCEPT ![c] = r + 1]
  /\ UserState' = [UserState EXCEPT ![c] = "ROOM"]
  /\ UNCHANGED <<UserID, Users, UserIDs>>

PutInRoom(c, r) ==
  /\ Rooms' = [Rooms EXCEPT ![r] = @ \cup {c}]
  /\ RoomNumber' = [RoomNumber EXCEPT ![c] = r]
  /\ UserState' = [UserState EXCEPT ![c] = "ROOM"]
  /\ UNCHANGED <<UserID, Users, UserIDs>>

\* The first room with nobody in it.
FirstEmpty(r) == Rooms[r] = {} /\ \A s \in RoomNumbers : Rooms[s] = {} => r <= s

ProcessPacketRoomNew(c) ==
  \/ Refuse(c, "new", "LOGIN")
  \/ /\ UserState[c] = "LOGIN"
     /\ \E r \in RoomNumbers : FirstEmpty(r) /\ PutInRoom(c, r)
     /\ Respond(c, "new", "SUCCESS")
  \/ /\ UserState[c] = "LOGIN"
     /\ \A r \in RoomNumbers : Rooms[r] # {}
     /\ Respond(c, "new", "FAIL_MAX_MAKE_ROOM")
     /\ UNCHANGED tables

ProcessPacketRoomEnter(c, r) ==
  \/ Refuse(c, "enter", "LOGIN")
  \/ /\ UserState[c] = "LOGIN"
     /\ r = INVALID \/ r >= MaxRoomCount
     /\ Respond(c, "enter", "FAIL_WRONG_ROOM_NUMBER")
     /\ UNCHANGED tables
  \/ /\ UserState[c] = "LOGIN"
     /\ r \in RoomNumbers
     /\ Rooms[r] # {}
     /\ PutInRoom(c, r)
     /\ Respond(c, "enter", "SUCCESS")
  \/ /\ UserState[c] = "LOGIN"
     /\ r \in RoomNumbers
     /\ Rooms[r] = {}
     /\ Respond(c, "enter", "FAIL_NOT_EXIST_ROOM")
     /\ UNCHANGED tables

\* Mutant: m_RoomNumber is not reset.
LeaveKeepsNumber(c) ==
  \/ Refuse(c, "leave", "ROOM")
  \/ /\ UserState[c] = "ROOM"
     /\ Rooms' = [Rooms EXCEPT ![RoomNumber[c]] = @ \ {c}]
     /\ Respond(c, "leave", "SUCCESS")
     /\ UserState' = [UserState EXCEPT ![c] = "LOGIN"]
     /\ UNCHANGED <<RoomNumber, UserID, Users, UserIDs>>

ProcessPacketRoomLeave(c) ==
  \/ Refuse(c, "leave", "ROOM")
  \/ /\ UserState[c] = "ROOM"
     /\ Rooms' = [Rooms EXCEPT ![RoomNumber[c]] = @ \ {c}]
     /\ Respond(c, "leave", IF c \in Rooms[RoomNumber[c]] THEN "SUCCESS" ELSE "FAIL")
     /\ RoomNumber' = [RoomNumber EXCEPT ![c] = INVALID]
     /\ UserState' = [UserState EXCEPT ![c] = "LOGIN"]
     /\ UNCHANGED <<UserID, Users, UserIDs>>

\* Mutant: the sender is left out.
ChatToOthers(c) ==
  \/ Refuse(c, "chat", "ROOM")
  \/ /\ UserState[c] = "ROOM"
     /\ out' = {Packet(d, "notify", UserID[c]) : d \in Rooms[RoomNumber[c]] \ {c}}
                 \cup {Packet(c, "chat", "SUCCESS")}
     /\ UNCHANGED tables

\* Everyone in the room is notified, then the sender is answered.
ProcessPacketRoomChat(c) ==
  \/ Refuse(c, "chat", "ROOM")
  \/ /\ UserState[c] = "ROOM"
     /\ out' = {Packet(d, "notify", UserID[c]) : d \in Rooms[RoomNumber[c]]}
                 \cup {Packet(c, "chat", "SUCCESS")}
     /\ UNCHANGED tables

ProcessPacketEcho(c) == Respond(c, "echo", "CONTENTS") /\ UNCHANGED tables

\* A packet without a handler in this mode, or not of the size its handler asks
\* for; in the echo test mode the notices too.
Ignore == out' = {} /\ UNCHANGED tables

ChatStep(c) ==
  \/ ConnectConnection(c)
  \/ DisconnectConnection(c)
  \/ \E id \in IDs : ProcessPacketLogin(c, id)
  \/ ProcessPacketRoomNew(c)
  \/ \E r \in RoomNumbers \cup {INVALID, MaxRoomCount} : ProcessPacketRoomEnter(c, r)
  \/ ProcessPacketRoomLeave(c)
  \/ ProcessPacketRoomChat(c)

Next ==
  /\ UNCHANGED IsEchoTestMode
  /\ \/ Ignore
     \/ IsEchoTestMode /\ \E c \in Conns : ProcessPacketEcho(c)
     \/ ~IsEchoTestMode /\ \E c \in Conns : ChatStep(c)

Spec == Init /\ [][Next]_vars

----------------------------------------------------------------------------
(* Properties.                                                             *)

\* Type invariant (out is constrained by the refinement).
TypeOK ==
  /\ UserState \in [Conns -> States]
  /\ UserID \in [Conns -> IDs \cup {EmptyID}]
  /\ RoomNumber \in [Conns -> RoomNumbers \cup {INVALID}]
  /\ Users \subseteq Conns
  /\ UserIDs \subseteq IDs
  /\ Rooms \in [RoomNumbers -> SUBSET Conns]

\* m_Rooms and m_UsersInfo say the same of who is in which room, so that no
\* handler indexes m_Rooms with INVALID_VALUE and no room keeps a ghost.
RoomsAgree ==
  \A c \in Conns :
    /\ UserState[c] = "ROOM" <=> RoomNumber[c] # INVALID
    /\ \A r \in RoomNumbers : c \in Rooms[r] <=> RoomNumber[c] = r

\* m_Users holds the connections that have a user.
UsersAgree == \A c \in Conns : c \in Users <=> UserState[c] # "NONE"

\* m_UserIDs holds the IDs of the users logged in; one logged in with the
\* empty ID may be missing, because a guest who leaves removes the empty ID.
IDsAgree ==
  /\ \A c \in Conns : LoggedIn(c) /\ UserID[c] # EmptyID => UserID[c] \in UserIDs
  /\ \A id \in UserIDs : \E c \in Conns : LoggedIn(c) /\ UserID[c] = id
  /\ \A c \in Conns : ~LoggedIn(c) => UserID[c] = EmptyID

\* FAIL_SAME_ID: two users never share an ID, the empty one excepted.
UniqueIDs ==
  \A c, d \in Conns :
    LoggedIn(c) /\ LoggedIn(d) /\ UserID[c] = UserID[d] /\ UserID[c] # EmptyID => c = d

\* The server implements ChatService: its tables never make it answer
\* otherwise than by where its users are.
Place == [NONE |-> "none", CONNECT |-> "guest", LOGIN |-> "lobby", ROOM |-> "room"]

Whereabouts ==
  [c \in Conns |-> [place |-> Place[UserState[c]], name |-> UserID[c], room |-> RoomNumber[c]]]

Service == INSTANCE ChatService WITH
  Clients <- Conns,
  Names <- IDs,
  NoName <- EmptyID,
  RoomCount <- MaxRoomCount,
  at <- Whereabouts,
  out <- out

Implements == Service!Spec
=============================================================================
