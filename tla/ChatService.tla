---------------------------- MODULE ChatService ----------------------------
(***************************************************************************)
(* What the chat server promises its clients, without the server's tables: *)
(* a client is a guest, in the lobby under a name, or in a room, and every *)
(* answer follows from where the clients are.  Names in use, occupied      *)
(* rooms and the members a message reaches are derived, never stored.      *)
(***************************************************************************)
EXTENDS Integers

CONSTANTS
  Clients,      \* the connections
  Names,        \* the names clients ask for
  NoName,       \* the empty name: the one name that is not kept unique
  RoomCount     \* rooms are numbered 0..RoomCount-1

VARIABLES
  at,           \* where each client is, under which name, in which room
  out           \* the packets the last request produced

Rooms == 0..(RoomCount - 1)
Places == {"none", "guest", "lobby", "room"}

Nowhere == [place |-> "none", name |-> NoName, room |-> -1]
Guest == [place |-> "guest", name |-> NoName, room |-> -1]
Lobby(name) == [place |-> "lobby", name |-> name, room |-> -1]
InRoom(name, r) == [place |-> "room", name |-> name, room |-> r]

Named(c) == at[c].place \in {"lobby", "room"}
Taken(name) == \E c \in Clients : Named(c) /\ at[c].name = name
Members(r) == {c \in Clients : at[c].place = "room" /\ at[c].room = r}

Answer(c, kind, result) == [to |-> c, kind |-> kind, result |-> result]

\* The answer to a request that the place of the client does not allow.
Refusal == [none |-> "FAIL_IN_NONE", guest |-> "FAIL_IN_LOGIN",
            lobby |-> "FAIL_IN_LOBBY", room |-> "FAIL_IN_ROOM"]

Init ==
  /\ at = [c \in Clients |-> Nowhere]
  /\ out = {}

Arrive(c) ==
  /\ at[c].place = "none"
  /\ at' = [at EXCEPT ![c] = Guest]
  /\ out' = {}

Depart(c) ==
  /\ at[c].place # "none"
  /\ at' = [at EXCEPT ![c] = Nowhere]
  /\ out' = {}

Silent == out' = {} /\ UNCHANGED at

Refuse(c, kind, allowed) ==
  /\ at[c].place # allowed
  /\ out' = {Answer(c, kind, Refusal[at[c].place])}
  /\ UNCHANGED at

\* A name in use is refused; a free one, or the empty one, may be given.
Login(c, name) ==
  /\ at[c].place = "guest"
  /\ \/ /\ name = NoName \/ ~Taken(name)
        /\ at' = [at EXCEPT ![c] = Lobby(name)]
        /\ out' = {Answer(c, "login", "SUCCESS")}
     \/ /\ Taken(name)
        /\ UNCHANGED at
        /\ out' = {Answer(c, "login", "FAIL_SAME_ID")}

Join(c, r, kind) ==
  /\ at' = [at EXCEPT ![c] = InRoom(at[c].name, r)]
  /\ out' = {Answer(c, kind, "SUCCESS")}

\* A new room is an empty one: refused when every room is occupied.
NewRoom(c) ==
  /\ at[c].place = "lobby"
  /\ \/ \E r \in Rooms : Members(r) = {} /\ Join(c, r, "new")
     \/ /\ \A r \in Rooms : Members(r) # {}
        /\ out' = {Answer(c, "new", "FAIL_MAX_MAKE_ROOM")}
        /\ UNCHANGED at

\* One enters only a room somebody is in.
EnterRoom(c, r) ==
  /\ at[c].place = "lobby"
  /\ \/ r \in Rooms /\ Members(r) # {} /\ Join(c, r, "enter")
     \/ /\ \/ r \notin Rooms
              /\ out' = {Answer(c, "enter", "FAIL_WRONG_ROOM_NUMBER")}
           \/ r \in Rooms /\ Members(r) = {}
              /\ out' = {Answer(c, "enter", "FAIL_NOT_EXIST_ROOM")}
        /\ UNCHANGED at

LeaveRoom(c) ==
  /\ at[c].place = "room"
  /\ at' = [at EXCEPT ![c] = Lobby(at[c].name)]
  /\ out' = {Answer(c, "leave", "SUCCESS")}

\* A message reaches the members of the sender's room, the sender too, under
\* the sender's name.
Chat(c) ==
  /\ at[c].place = "room"
  /\ out' = {Answer(d, "notify", at[c].name) : d \in Members(at[c].room)}
              \cup {Answer(c, "chat", "SUCCESS")}
  /\ UNCHANGED at

\* One who is nowhere may have an echo: the service is not open then.
Echo(c) ==
  /\ \A d \in Clients : at[d].place = "none"
  /\ out' = {Answer(c, "echo", "CONTENTS")}
  /\ UNCHANGED at

Next ==
  \/ Silent
  \/ \E c \in Clients :
       \/ Echo(c)
       \/ Arrive(c) \/ Depart(c)
       \/ \E name \in Names : Login(c, name)
       \/ NewRoom(c)
       \/ \E r \in (Rooms \cup {-1, RoomCount}) : EnterRoom(c, r)
       \/ LeaveRoom(c) \/ Chat(c)
       \/ Refuse(c, "login", "guest")
       \/ \E kind \in {"new", "enter"} : Refuse(c, kind, "lobby")
       \/ \E kind \in {"leave", "chat"} : Refuse(c, kind, "room")

Spec == Init /\ [][Next]_<<at, out>>
=============================================================================
