------------------------------ MODULE ApiGateway ------------------------------
(***************************************************************************)
(* The api-gateway: one REST call from the router to the answer.           *)
(*                                                                         *)
(* Every REST handler has one shape: it refuses a request that lacks a     *)
(* path parameter, a readable body or a required field; it copies          *)
(* parameters into an RPC request; it forwards the Authorization header;   *)
(* and it turns the RPC's result into a status.  A handler is a record     *)
(* that says which parameters it needs and where each field of the RPC     *)
(* comes from.  The value of a parameter is its own name, blank or empty,  *)
(* so that a value keeps the trace of where it came from.                  *)
(***************************************************************************)
EXTENDS Naturals, Functions

CONSTANTS Calls,     \* REST calls
          Subjects,  \* the users that tokens are made out to
          Absent     \* no token, no status, no reply

VARIABLES gw,       \* gw[c]: where the gateway's goroutine for c is
          svc,      \* svc[c]: where the service's goroutine for c is
          call,     \* call[c]: the request the client sent
          reply,    \* reply[c]: the Connect code the service returned
          status,   \* status[c]: the HTTP status written
          dead,     \* users whose access token has expired
          ledger    \* what the services wrote, one entry per served call

apiVars == <<gw, svc, call, reply, status, dead, ledger>>

-----------------------------------------------------------------------------
(* Handlers.  ids: path parameters that must not be empty; body: a JSON    *)
(* body is decoded; required: body fields that must not be empty; trimmed: *)
(* those for which white space counts as empty; query: parameters with the *)
(* value used when one is absent or unreadable; args: where each RPC field *)
(* comes from; ok: the status of success.                                  *)
Handler == [rpc |-> "none", ids |-> {}, body |-> FALSE, required |-> {},
            trimmed |-> {}, query |-> <<>>, args |-> <<>>, ok |-> 200]

Page(n) == [limit |-> n, offset |-> "0"]

ListCommunities ==
  [Handler EXCEPT !.rpc = "ListCommunities", !.query = Page("50")]

CreateCommunity ==
  [Handler EXCEPT !.rpc = "CreateCommunity", !.body = TRUE, !.required = {"name"},
                  !.args = [name |-> "name", description |-> "description"], !.ok = 201]

GetCommunity ==
  [Handler EXCEPT !.rpc = "GetCommunity", !.ids = {"id"},
                  !.args = [community_id |-> "id"]]

UpdateCommunity ==
  [Handler EXCEPT !.rpc = "UpdateCommunity", !.ids = {"id"}, !.body = TRUE,
                  !.args = [community_id |-> "id", name |-> "name"]]

CreateChannel ==
  [Handler EXCEPT !.rpc = "CreateChannel", !.ids = {"id"}, !.body = TRUE,
                  !.required = {"name"},
                  !.args = [community_id |-> "id", name |-> "name"], !.ok = 201]

GetChannels ==
  [Handler EXCEPT !.rpc = "ListChannels", !.ids = {"id"}, !.query = Page("50"),
                  !.args = [community_id |-> "id"]]

UpdateChannel ==
  [Handler EXCEPT !.rpc = "UpdateChannel", !.ids = {"id"}, !.body = TRUE,
                  !.args = [channel_id |-> "id", name |-> "name"]]

JoinCommunity ==
  [Handler EXCEPT !.rpc = "JoinCommunity", !.ids = {"id"},
                  !.args = [community_id |-> "id"], !.ok = 201]

\* The body's user_id is required and then dropped: the caller joins.
AddMember ==
  [Handler EXCEPT !.rpc = "JoinCommunity", !.ids = {"id"}, !.body = TRUE,
                  !.required = {"user_id"}, !.args = [community_id |-> "id"], !.ok = 201]

\* The member to remove taken from the wrong parameter.
RemoveWrongMember ==
  [Handler EXCEPT !.rpc = "KickMember", !.ids = {"id", "uid"},
                  !.args = [community_id |-> "id", user_id |-> "id"]]

RemoveMember ==
  [Handler EXCEPT !.rpc = "KickMember", !.ids = {"id", "uid"},
                  !.args = [community_id |-> "id", user_id |-> "uid"]]

LeaveCommunity ==
  [Handler EXCEPT !.rpc = "LeaveCommunity", !.ids = {"id"},
                  !.args = [community_id |-> "id"]]

ListMembers ==
  [Handler EXCEPT !.rpc = "ListMembers", !.ids = {"id"}, !.query = Page("50"),
                  !.args = [community_id |-> "id"]]

SendMessage ==
  [Handler EXCEPT !.rpc = "SendMessage", !.ids = {"id"}, !.body = TRUE,
                  !.required = {"content"},
                  !.args = [channel_id |-> "id", content |-> "content",
                            file_ids |-> "file_ids"], !.ok = 201]

\* The channel in the path is not read: the message id alone names the row.
DeleteMessage ==
  [Handler EXCEPT !.rpc = "DeleteMessage", !.ids = {"mid"},
                  !.args = [message_id |-> "mid"]]

EditMessage ==
  [Handler EXCEPT !.rpc = "EditMessage", !.ids = {"mid"}, !.body = TRUE,
                  !.required = {"content"}, !.trimmed = {"content"},
                  !.args = [message_id |-> "mid", content |-> "content"]]

GetHistory ==
  [Handler EXCEPT !.rpc = "GetMessages", !.ids = {"id"},
                  !.query = [limit |-> "50", offset |-> "0", since_seq |-> "0"],
                  !.args = [channel_id |-> "id"]]

GetUser ==
  [Handler EXCEPT !.rpc = "GetUser", !.ids = {"id"}, !.args = [user_id |-> "id"]]

\* The user in the path is checked for presence and not used further.
UpdateProfile ==
  [Handler EXCEPT !.rpc = "UpdateProfile", !.ids = {"id"}, !.body = TRUE,
                  !.args = [nickname |-> "nickname", avatar_url |-> "avatar_url"]]

ListFriends ==
  [Handler EXCEPT !.rpc = "ListFriends", !.query = Page("20")]

SendDM ==
  [Handler EXCEPT !.rpc = "SendDM", !.body = TRUE,
                  !.required = {"target_user_id", "content"},
                  !.args = [target_user_id |-> "target_user_id", content |-> "content"],
                  !.ok = 201]

GetDMHistory ==
  [Handler EXCEPT !.rpc = "GetDMHistory", !.ids = {"peerId"},
                  !.query = [limit |-> "50", offset |-> "0", since_seq |-> "0"],
                  !.args = [target_user_id |-> "peerId"]]

GetDMConversations ==
  [Handler EXCEPT !.rpc = "GetDMConversations", !.query = Page("50")]

\* An unreadable form is a 400 as an unreadable body is; the file's id is
\* made by the gateway.
UploadFile ==
  [Handler EXCEPT !.rpc = "UploadFile", !.body = TRUE, !.required = {"file"},
                  !.args = [filename |-> "file", data |-> "file"], !.ok = 201]

GetFileURL ==
  [Handler EXCEPT !.rpc = "GetFilePresignedURL", !.ids = {"id"},
                  !.args = [file_id |-> "id"]]

DeleteFile ==
  [Handler EXCEPT !.rpc = "DeleteFile", !.ids = {"id"}, !.args = [file_id |-> "id"]]

Search ==
  [Handler EXCEPT !.rpc = "Search", !.ids = {"q"}, !.query = [limit |-> "20"],
                  !.args = [query |-> "q"]]

GetUnread == [Handler EXCEPT !.rpc = "GetUnreadCounts"]

MarkDMRead ==
  [Handler EXCEPT !.rpc = "MarkDMRead", !.ids = {"conv_id"},
                  !.args = [conversation_id |-> "conv_id"]]

MarkChannelRead ==
  [Handler EXCEPT !.rpc = "MarkChannelRead", !.ids = {"ch_id"},
                  !.args = [channel_id |-> "ch_id"]]

Register ==
  [Handler EXCEPT !.rpc = "Register", !.body = TRUE,
                  !.required = {"email", "password", "nickname"},
                  !.args = [email |-> "email", password |-> "password",
                            nickname |-> "nickname"], !.ok = 201]

Login ==
  [Handler EXCEPT !.rpc = "Login", !.body = TRUE, !.required = {"email", "password"},
                  !.args = [email |-> "email", password |-> "password"]]

RefreshToken ==
  [Handler EXCEPT !.rpc = "RefreshToken", !.body = TRUE,
                  !.required = {"refresh_token"},
                  !.args = [refresh_token |-> "refresh_token"]]

\* The answer comes from Redis and not from a service, and is always 200.
GetPresence == Handler

\* Routes registered before their RPC exists answer 501.
notImplemented == [Handler EXCEPT !.ok = 501]

\* The routes outside the group that jwtAuthMiddleware guards.
Public == {"Register", "Login", "RefreshToken"}

Routes ==
  [ListCommunities |-> ListCommunities, CreateCommunity |-> CreateCommunity,
   GetCommunity |-> GetCommunity, UpdateCommunity |-> UpdateCommunity,
   CreateChannel |-> CreateChannel, GetChannels |-> GetChannels,
   UpdateChannel |-> UpdateChannel, JoinCommunity |-> JoinCommunity,
   AddMember |-> AddMember, RemoveMember |-> RemoveMember,
   LeaveCommunity |-> LeaveCommunity, ListMembers |-> ListMembers,
   SendMessage |-> SendMessage, DeleteMessage |-> DeleteMessage,
   EditMessage |-> EditMessage, GetHistory |-> GetHistory, GetUser |-> GetUser,
   UpdateProfile |-> UpdateProfile, ListFriends |-> ListFriends, SendDM |-> SendDM,
   GetDMHistory |-> GetDMHistory, GetDMConversations |-> GetDMConversations,
   UploadFile |-> UploadFile, GetFileURL |-> GetFileURL, DeleteFile |-> DeleteFile,
   Search |-> Search, GetUnread |-> GetUnread, MarkDMRead |-> MarkDMRead,
   MarkChannelRead |-> MarkChannelRead, Register |-> Register, Login |-> Login,
   RefreshToken |-> RefreshToken, GetPresence |-> GetPresence,
   BlockUser |-> notImplemented]

-----------------------------------------------------------------------------
(* What a handler does with a request.  A request gives every parameter of *)
(* the handler a value: its own name, white space, or nothing.             *)
Params(h) == h.ids \cup h.required \cup Range(h.args)

Inputs(h) == {f \in [Params(h) \cup DOMAIN h.query -> Params(h) \cup {"", " ", "7"}] :
                \A p \in DOMAIN f : f[p] \in IF p \in Params(h) THEN {p, "", " "}
                                                               ELSE {"", " ", "7"}}

\* int32FromQuery and int64FromQuery: absent or unreadable means the default.
FromQuery(v, default) == IF v \in {"", " "} THEN default ELSE v

Refuses(h, r) ==
  \/ \E p \in h.ids : r.in[p] = ""
  \/ h.body /\ r.malformed
  \/ \E p \in h.required : r.in[p] = "" \/ (p \in h.trimmed /\ r.in[p] = " ")

RpcRequest(h, r) ==
  [f \in DOMAIN h.args \cup DOMAIN h.query |->
     IF f \in DOMAIN h.args THEN r.in[h.args[f]]
                            ELSE FromQuery(r.in[f], h.query[f])]

\* A mapping that blames the client for a failure of the service.
BlameTheClient(code) ==
  CASE code \in {"invalid_argument", "failed_precondition", "internal"} -> 400
    [] code = "unauthenticated" -> 401
    [] OTHER -> 503

mapConnectCode(code) ==
  CASE code \in {"invalid_argument", "failed_precondition", "out_of_range"} -> 400
    [] code = "unauthenticated"            -> 401
    [] code = "permission_denied"          -> 403
    [] code = "not_found"                  -> 404
    [] code = "canceled"                   -> 408
    [] code \in {"already_exists", "aborted"} -> 409
    [] code = "resource_exhausted"         -> 429
    [] code = "unimplemented"              -> 501
    [] code = "unavailable"                -> 503
    [] code = "deadline_exceeded"          -> 504
    [] OTHER                               -> 500

-----------------------------------------------------------------------------
(* The services, as far as the gateway can tell.  Demanded: the fields a   *)
(* service refuses when they are empty; OptionalIn: the ones an update     *)
(* does not refuse (UpdateProfile writes them as they are, so an absent    *)
(* nickname is cleared); FreeText: the demanded fields that may be white   *)
(* space, the others being trimmed, or compared with a uuid column or with *)
(* a password hash, which white space never equals.                        *)
Demanded ==
  {"community_id", "name", "channel_id", "content", "message_id", "user_id",
   "target_user_id", "file_id", "filename", "data", "query", "conversation_id",
   "email", "password", "nickname", "refresh_token"}

OptionalIn(rpc) ==
  IF rpc \in {"UpdateCommunity", "UpdateChannel", "UpdateProfile"}
  THEN {"name", "nickname"} ELSE {}

FreeText == {"filename", "data", "query"}

Lacking(rpc, args, values) ==
  \E f \in (DOMAIN args \cap Demanded) \ OptionalIn(rpc) : args[f] \in values

Blank(rpc, args) ==
  \E f \in (DOMAIN args \cap Demanded) \ (OptionalIn(rpc) \cup FreeText) : args[f] = " "

\* The request cannot succeed: the service answers invalid_argument, or finds
\* no such row.
Unservable(rpc, args) == Lacking(rpc, args, {""}) \/ Blank(rpc, args)

\* RPCs that write; GetDMHistory creates the conversation it is asked for.
Writing ==
  {"CreateCommunity", "UpdateCommunity", "CreateChannel", "UpdateChannel",
   "JoinCommunity", "KickMember", "LeaveCommunity", "SendMessage", "DeleteMessage",
   "EditMessage", "UpdateProfile", "SendDM", "GetDMHistory", "UploadFile",
   "DeleteFile", "MarkDMRead", "MarkChannelRead", "Register", "Login",
   "RefreshToken"}

\* RPCs that can fail with an internal error after the first of their writes.
FailsLate == {"CreateCommunity", "UpdateProfile", "SendDM", "GetDMHistory",
              "UploadFile", "DeleteFile", "Register", "RefreshToken"}

Refusals == {"invalid_argument", "not_found", "permission_denied",
             "failed_precondition", "already_exists", "unauthenticated", "internal"}

-----------------------------------------------------------------------------
ApiInit ==
  /\ gw     = [c \in Calls |-> "new"]
  /\ svc    = [c \in Calls |-> "none"]
  /\ call   = [c \in Calls |-> Absent]
  /\ reply  = [c \in Calls |-> Absent]
  /\ status = [c \in Calls |-> Absent]
  /\ dead   = {}
  /\ ledger = {}

H(c) == Routes[call[c].route]

\* The client sends a request; user Absent is a request without a token.
Send(c, route, u) ==
  /\ gw[c] = "new"
  /\ \E in \in Inputs(Routes[route]), malformed \in BOOLEAN :
       /\ malformed => Routes[route].body
       /\ call' = [call EXCEPT ![c] = [route |-> route, user |-> u, in |-> in,
                                       malformed |-> malformed]]
  /\ gw' = [gw EXCEPT ![c] = IF route \in Public THEN "handler" ELSE "middleware"]
  /\ UNCHANGED <<svc, reply, status, dead, ledger>>

Answer(c, s) ==
  /\ gw' = [gw EXCEPT ![c] = "done"]
  /\ status' = [status EXCEPT ![c] = s]

\* jwt.ParseToken, called by the gateway and again by the service.
ParseToken(c) == call[c].user # Absent /\ call[c].user \notin dead

jwtAuthMiddleware(c) ==
  /\ gw[c] = "middleware"
  /\ \/ ParseToken(c) /\ gw' = [gw EXCEPT ![c] = "handler"] /\ UNCHANGED status
     \/ ~ParseToken(c) /\ Answer(c, 401)
  /\ UNCHANGED <<svc, call, reply, dead, ledger>>

\* The handler refuses, answers by itself, or calls its service and waits.
Handle(c) ==
  /\ gw[c] = "handler"
  /\ \/ Refuses(H(c), call[c]) /\ Answer(c, 400) /\ UNCHANGED svc
     \/ H(c).rpc = "none" /\ Answer(c, H(c).ok) /\ UNCHANGED svc
     \/ /\ ~Refuses(H(c), call[c]) /\ H(c).rpc # "none"
        /\ gw' = [gw EXCEPT ![c] = "waiting"]
        /\ svc' = [svc EXCEPT ![c] = "arriving"]
        /\ UNCHANGED status
  /\ UNCHANGED <<call, reply, dead, ledger>>

-----------------------------------------------------------------------------
(* The service's side of a call. *)
Return(c, code) ==
  /\ svc' = [svc EXCEPT ![c] = "ended"]
  /\ reply' = [reply EXCEPT ![c] = code]

\* The interceptor refuses a token that has expired since the gateway checked it.
AuthInterceptor(c) ==
  /\ svc[c] = "arriving"
  /\ \/ /\ call[c].route \in Public \/ ParseToken(c)
        /\ svc' = [svc EXCEPT ![c] = "serving"]
        /\ UNCHANGED reply
     \/ call[c].route \notin Public /\ ~ParseToken(c) /\ Return(c, "unauthenticated")
  /\ UNCHANGED <<gw, call, status, dead, ledger>>

Args(c) == RpcRequest(H(c), call[c])

Entry(c) == [call |-> c, rpc |-> H(c).rpc, by |-> call[c].user, args |-> Args(c)]

Refuse(c) ==
  /\ svc[c] = "serving"
  /\ \E code \in Refusals : Return(c, code)
  /\ UNCHANGED <<gw, call, status, dead, ledger>>

\* The service writes (or reads) and succeeds.
Serve(c) ==
  /\ svc[c] = "serving" /\ ~Unservable(H(c).rpc, Args(c))
  /\ ledger' = IF H(c).rpc \in Writing THEN ledger \cup {Entry(c)} ELSE ledger
  /\ Return(c, "ok")
  /\ UNCHANGED <<gw, call, status, dead>>

\* A service that writes more than one row, or reads back what it wrote,
\* fails after the first write.
FailLate(c) ==
  /\ svc[c] = "serving" /\ ~Unservable(H(c).rpc, Args(c)) /\ H(c).rpc \in FailsLate
  /\ ledger' = ledger \cup {Entry(c)}
  /\ Return(c, "internal")
  /\ UNCHANGED <<gw, call, status, dead>>

-----------------------------------------------------------------------------
(* What the gateway makes of the call. *)
Finish(c) ==
  /\ gw[c] = "waiting" /\ svc[c] = "ended"
  /\ Answer(c, IF reply[c] = "ok" THEN H(c).ok ELSE mapConnectCode(reply[c]))
  /\ UNCHANGED <<svc, call, reply, dead, ledger>>

\* The service cannot be reached, dies at work, or its answer is lost.
Unreachable(c) ==
  /\ gw[c] = "waiting"
  /\ Answer(c, mapConnectCode("unavailable"))
  /\ svc' = [svc EXCEPT ![c] = "ended"]
  /\ UNCHANGED <<call, reply, dead, ledger>>

\* middleware.Timeout cancels the call; the service may still be at work.
Deadline(c) ==
  /\ gw[c] = "waiting"
  /\ Answer(c, mapConnectCode("deadline_exceeded"))
  /\ UNCHANGED <<svc, call, reply, dead, ledger>>

\* The client hangs up: the request's context is cancelled.
HangUp(c) ==
  /\ gw[c] = "waiting"
  /\ Answer(c, mapConnectCode("canceled"))
  /\ UNCHANGED <<svc, call, reply, dead, ledger>>

TokenExpires(u) ==
  /\ u \notin dead
  /\ dead' = dead \cup {u}
  /\ UNCHANGED <<gw, svc, call, reply, status, ledger>>

Gateway(c) == jwtAuthMiddleware(c) \/ Handle(c) \/ Finish(c) \/ Deadline(c)

ApiNext ==
  \/ \E c \in Calls, r \in DOMAIN Routes, u \in Subjects \cup {Absent} : Send(c, r, u)
  \/ \E c \in Calls :
       Gateway(c) \/ AuthInterceptor(c) \/ Refuse(c) \/ Serve(c) \/ FailLate(c)
         \/ Unreachable(c) \/ HangUp(c)
  \/ \E u \in Subjects : TokenExpires(u)

ApiSpec == ApiInit /\ [][ApiNext]_apiVars

-----------------------------------------------------------------------------
(* Properties *)

\* What the status tells the client is true of the database, whatever became
\* of the service meanwhile: a success was carried out, and a call refused
\* with a client error (408 apart: the call was cut off) is never carried
\* out, not even later.  Handlers, interceptor and mapConnectCode together.
Did(c) == \E e \in ledger : e.call = c
AnswerTellsEffect ==
  \A c \in Calls : gw[c] = "done" =>
    /\ status[c] \in {200, 201} /\ H(c).rpc \in Writing => Did(c)
    /\ status[c] \in 400..499 \ {408} => ~Did(c) /\ svc[c] # "serving"

\* A write touches the row the client named: every field arrives filled, from
\* the parameter its name announces, and nothing the client had to give is
\* dropped on the way, but for the parameters the handlers do not pass on.
Announced ==
  [community_id |-> {"id"}, channel_id |-> {"id", "ch_id"}, message_id |-> {"mid"},
   user_id |-> {"uid"}, target_user_id |-> {"target_user_id", "peerId"},
   file_id |-> {"id"}, conversation_id |-> {"conv_id"}, content |-> {"content"}]
NotPassedOn == [AddMember |-> {"user_id"}, UpdateProfile |-> {"id"}]
NamedRowIsWritten ==
  \A e \in ledger :
    LET r == call[e.call]
        kept == IF r.route \in DOMAIN NotPassedOn THEN NotPassedOn[r.route] ELSE {}
    IN /\ \A f \in DOMAIN e.args \cap DOMAIN Announced : e.args[f] \in Announced[f]
       /\ H(e.call).ids \cup H(e.call).required \subseteq Range(e.args) \cup kept \cup {"file"}
=============================================================================
