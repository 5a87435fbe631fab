------------------------------- MODULE RpcStub -------------------------------
(* The requests of one server connection: every method of ServerConnection   *)
(* sends one request, RPCTransmitter calls the stub for it, the stub renews  *)
(* the shared token when the server rejects it, and a timeout cuts most of   *)
(* this short. All of it runs on the one worker thread of the runtime, so a  *)
(* stretch without await is one step. The server is external.                *)
EXTENDS Naturals, Functions

CONSTANTS Requests,    \* requests of the connection
          Opener,      \* the one of them that opens it
          MethodsOf,   \* MethodsOf[r]: the methods request r may belong to
          MaxTokens,   \* bound on the tokens the server issues
          NoToken

ASSUME StubConstants ==
    MaxTokens \in Nat /\ NoToken \notin 1..MaxTokens /\ Opener \in Requests

VARIABLES
    rpcs,      \* rpcs[r]: the request, its stub call and the caller's result
    token,     \* CallCredentials.token, shared by the clones of the stub
    issued,    \* how many tokens the server has issued
    valid,     \* tokens the server accepts
    password,  \* whether the server still accepts the driver's credentials
    executed,  \* executed[r]: how often the server carried out request r
    calm       \* requests since whose call no other one touched the token,
               \* and no token expired

rpcVars == <<rpcs, token, issued, valid, password, executed, calm>>
serverVars == <<issued, valid, password, executed>>

(* Tables with different keys, as one (@@ written out for the proofs).       *)
Joined(f, g) == [x \in DOMAIN f \cup DOMAIN g |-> IF x \in DOMAIN f THEN f[x] ELSE g[x]]

-----------------------------------------------------------------------------
(* Which call send_request() makes for a request.                            *)
FaultySendRequest(kind) == IF kind = "UsersContains" THEN "users_get" ELSE "connection_open"

SendRequest(kind) ==
    [ConnectionOpen |-> "connection_open", ServersAll |-> "servers_all",
     ServersGet |-> "servers_get", ServerVersion |-> "server_version",
     DatabasesAll |-> "databases_all", DatabaseGet |-> "databases_get",
     DatabasesContains |-> "databases_contains", DatabaseCreate |-> "databases_create",
     DatabaseImport |-> "databases_import", DatabaseDelete |-> "database_delete",
     DatabaseSchema |-> "database_schema", DatabaseTypeSchema |-> "database_type_schema",
     DatabaseExport |-> "database_export", Transaction |-> "transaction",
     UsersAll |-> "users_all", UsersContains |-> "users_contains",
     UsersCreate |-> "users_create", UsersUpdate |-> "users_update",
     UsersDelete |-> "users_delete", UsersGet |-> "users_get"][kind]

(* The request a call's protocol message is made from (try_into_proto). The  *)
(* other requests are an UnexpectedRequestType.                              *)
DatabaseRequests ==
    [connection_open |-> "ConnectionOpen", servers_all |-> "ServersAll",
     servers_get |-> "ServersGet", server_version |-> "ServerVersion",
     databases_all |-> "DatabasesAll", databases_get |-> "DatabaseGet",
     databases_contains |-> "DatabasesContains", databases_create |-> "DatabaseCreate",
     databases_import |-> "DatabaseImport", database_delete |-> "DatabaseDelete",
     database_schema |-> "DatabaseSchema", database_type_schema |-> "DatabaseTypeSchema",
     database_export |-> "DatabaseExport", transaction |-> "Transaction"]

UserRequests ==
    [users_all |-> "UsersAll", users_get |-> "UsersGet", users_contains |-> "UsersContains",
     users_create |-> "UsersCreate", users_update |-> "UsersUpdate", users_delete |-> "UsersDelete"]

MadeFrom == Joined(DatabaseRequests, UserRequests)

(* The response an answer is converted to (from_proto, try_from_proto).      *)
DatabaseResponses ==
    [connection_open |-> "ConnectionOpen", servers_all |-> "ServersAll",
     servers_get |-> "ServersGet", server_version |-> "ServerVersion",
     databases_all |-> "DatabasesAll", databases_get |-> "DatabaseGet",
     databases_contains |-> "DatabasesContains", databases_create |-> "DatabaseCreate",
     database_delete |-> "DatabaseDelete", database_schema |-> "DatabaseSchema",
     database_type_schema |-> "DatabaseTypeSchema"]

StreamResponses ==
    [databases_import |-> "DatabaseImport", database_export |-> "DatabaseExportStream",
     transaction |-> "TransactionStream"]

UserResponses ==
    [users_all |-> "UsersAll", users_get |-> "UsersGet", users_contains |-> "UsersContain",
     users_create |-> "UsersCreate", users_update |-> "UsersUpdate", users_delete |-> "UsersDelete"]

ConvertedTo == Joined(Joined(DatabaseResponses, StreamResponses), UserResponses)

(* Answers with a field that may be missing.                                 *)
Partial == {"connection_open", "servers_get", "databases_get", "databases_create"}

(* The methods of ServerConnection: the request each sends, and the response *)
(* it accepts; delete_database takes any.                                    *)
ServerMethods ==
    [open_connection |-> <<"ConnectionOpen", "ConnectionOpen">>,
     servers_all |-> <<"ServersAll", "ServersAll">>,
     servers_get |-> <<"ServersGet", "ServersGet">>,
     version |-> <<"ServerVersion", "ServerVersion">>]

DatabaseMethods ==
    [all_databases |-> <<"DatabasesAll", "DatabasesAll">>,
     contains_database |-> <<"DatabasesContains", "DatabasesContains">>,
     get_database |-> <<"DatabaseGet", "DatabaseGet">>,
     create_database |-> <<"DatabaseCreate", "DatabaseCreate">>,
     import_database |-> <<"DatabaseImport", "DatabaseImport">>,
     delete_database |-> <<"DatabaseDelete", "DatabaseDelete">>,
     database_schema |-> <<"DatabaseSchema", "DatabaseSchema">>,
     database_type_schema |-> <<"DatabaseTypeSchema", "DatabaseTypeSchema">>,
     database_export |-> <<"DatabaseExport", "DatabaseExportStream">>,
     open_transaction |-> <<"Transaction", "TransactionStream">>]

UserMethods ==
    [all_users |-> <<"UsersAll", "UsersAll">>,
     get_user |-> <<"UsersGet", "UsersGet">>,
     contains_user |-> <<"UsersContains", "UsersContain">>,
     create_user |-> <<"UsersCreate", "UsersCreate">>,
     update_password |-> <<"UsersUpdate", "UsersUpdate">>,
     delete_user |-> <<"UsersDelete", "UsersDelete">>]

Methods == Joined(Joined(ServerMethods, DatabaseMethods), UserMethods)

ASSUME MethodsAssumption == \A r \in Requests : MethodsOf[r] \subseteq DOMAIN Methods

(* What the user calls, each one method under ServerManager::execute.        *)
DriverCalls ==
    [server_version |-> "version", servers |-> "servers_all", primary_server |-> "servers_all",
     transaction |-> "open_transaction"]

DatabaseManagerCalls ==
    [all |-> "all_databases", get |-> "get_database", contains |-> "contains_database",
     create |-> "create_database", import_stream |-> "import_database",
     import_from_file |-> "import_database"]

DatabaseCalls ==
    [delete |-> "delete_database", schema |-> "database_schema",
     type_schema |-> "database_type_schema", export_to_file |-> "database_export"]

UserManagerCalls ==
    [contains |-> "contains_user", get |-> "get_user", get_current |-> "get_user",
     all |-> "all_users", create |-> "create_user"]

UserCalls == [update_password |-> "update_password", delete |-> "delete_user"]

UserFacing ==
    UNION {Range(f) : f \in {DriverCalls, DatabaseManagerCalls, DatabaseCalls, UserManagerCalls,
                             UserCalls}}

Accepts(method, response) == method = "delete_database" \/ response = Methods[method][2]

(* single() and the opening of a transaction are under request_timeout; the  *)
(* streams of import and export are not.                                     *)
FaultyTimed(call) == call \notin {"databases_import", "database_export", "transaction"}
Timed(call) == call \notin {"databases_import", "database_export"}

-----------------------------------------------------------------------------
Idle == [pc |-> "idle", method |-> "version", with |-> NoToken, answer |-> "none",
         result |-> "none", renewed |-> FALSE]

CallOf(r) == SendRequest(Methods[rpcs[r].method][1])
Pc(r) == rpcs[r].pc
Returned(method, result) == [Idle EXCEPT !.pc = "returned", !.method = method, !.result = result]
Return(r, result) == rpcs' = [rpcs EXCEPT ![r] = Returned(rpcs[r].method, result)]

(* A new connection, not opened yet.                                         *)
StubInit ==
    /\ rpcs = [r \in Requests |-> Idle]
    /\ token = NoToken
    /\ issued = 0
    /\ valid = {}
    /\ password = TRUE
    /\ executed = [r \in Requests |-> 0]
    /\ calm = {}

(* The call is made, and awaits that the channel is ready.                   *)
Calls(r, method, renewed) ==
    rpcs' = [rpcs EXCEPT ![r] = [Idle EXCEPT !.pc = "ready", !.method = method,
                                             !.renewed = renewed]]

(* ServerConnection::new() returns the connection only once it is open.      *)
Submit(r) ==
    /\ Pc(r) = "idle"
    /\ r = Opener \/ rpcs[Opener].result = "ok"
    /\ \E m \in IF r = Opener THEN {"open_connection"} ELSE MethodsOf[r] :
         LET kind == Methods[m][1]
         IN  IF MadeFrom[SendRequest(kind)] = kind
             THEN Calls(r, m, FALSE)
             ELSE rpcs' = [rpcs EXCEPT ![r] = Returned(m, "unexpected")]
    /\ calm' = calm \cup {r}
    /\ UNCHANGED <<token, serverVars>>

(* The channel is ready, or fails. The credential injector puts in whatever  *)
(* token there is by now.                                                    *)
Inject(r) ==
    /\ Pc(r) = "ready"
    /\ \E answer \in {"none", "lost"} :
         rpcs' = [rpcs EXCEPT ![r].pc = "called", ![r].with = token, ![r].answer = answer]
    /\ UNCHANGED <<token, calm, serverVars>>

(* The server: a request is authorised by its token, the opening of a        *)
(* connection by the credentials, and answered with a token. A request that  *)
(* was carried out may still end in an error on the way back.                *)
Authorised(r) == IF r = Opener THEN password ELSE rpcs[r].with \in valid

Issue(r) ==
    /\ issued < MaxTokens
    /\ issued' = issued + 1
    /\ valid' = valid \cup {issued'}

Serve(r) ==
    /\ Pc(r) = "called"
    /\ rpcs[r].answer = "none"
    /\ \/ /\ Authorised(r)
          /\ \E answer \in {"full", "lost"} \cup (IF CallOf(r) \in Partial THEN {"partial"} ELSE {}) :
               rpcs' = [rpcs EXCEPT ![r].answer = answer,
                                    ![r].with = IF r = Opener THEN issued + 1 ELSE @]
          /\ executed' = [executed EXCEPT ![r] = @ + 1]
          /\ password' = (password /\ rpcs[r].method # "update_password")
          /\ IF r = Opener THEN Issue(r) ELSE UNCHANGED <<issued, valid>>
       \/ /\ ~Authorised(r)
          /\ rpcs' = [rpcs EXCEPT ![r].answer = IF r = Opener THEN "denied" ELSE "invalid"]
          /\ UNCHANGED serverVars
    /\ UNCHANGED <<token, calm>>

(* Tokens expire.                                                            *)
Expire ==
    /\ \E t \in valid : valid' = valid \ {t}
    /\ calm' = {}
    /\ UNCHANGED <<rpcs, token, issued, password, executed>>

FaultyRenewsOn(answer) == answer \in {"invalid", "lost"}
RenewsOn(answer) == answer = "invalid"

(* call_with_auto_renew_token(): the first rejection resets the token and    *)
(* asks for another; the result of the second call stands.                   *)
Renew(r) ==
    /\ Pc(r) = "called"
    /\ RenewsOn(rpcs[r].answer)
    /\ ~rpcs[r].renewed
    /\ token' = NoToken
    /\ rpcs' = [rpcs EXCEPT ![r].pc = "renewing", ![r].answer = "none"]
    /\ calm' = calm \cap {r}
    /\ UNCHANGED serverVars

Authenticate(r) ==
    /\ Pc(r) = "renewing"
    /\ rpcs[r].answer = "none"
    /\ \/ /\ password
          /\ Issue(r)
          /\ rpcs' = [rpcs EXCEPT ![r].answer = "full", ![r].with = issued + 1]
       \/ rpcs' = [rpcs EXCEPT ![r].answer = "denied"] /\ UNCHANGED <<issued, valid>>
    /\ UNCHANGED <<token, password, executed, calm>>

FaultyStored(t) == token
Stored(t) == t

(* set_token() and the second call up to its first await.                    *)
Renewed(r) ==
    /\ Pc(r) = "renewing"
    /\ rpcs[r].answer # "none"
    /\ IF rpcs[r].answer = "full"
       THEN /\ token' = Stored(rpcs[r].with)
            /\ Calls(r, rpcs[r].method, TRUE)
            /\ calm' = calm \cap {r}
       ELSE Return(r, "denied") /\ UNCHANGED <<token, calm>>
    /\ UNCHANGED serverVars

(* The answer reaches the method. connection_open() stores the token of a    *)
(* full answer; one without a token panics there, and the caller sees only a *)
(* channel that was dropped.                                                 *)
Deliver(r) ==
    /\ Pc(r) = "called"
    /\ rpcs[r].answer # "none"
    /\ ~RenewsOn(rpcs[r].answer) \/ rpcs[r].renewed
    /\ \/ /\ rpcs[r].answer = "full"
          /\ Return(r, IF Accepts(rpcs[r].method, ConvertedTo[CallOf(r)]) THEN "ok" ELSE "unexpected")
       \/ rpcs[r].answer = "partial" /\ Return(r, "missing field")
       \/ rpcs[r].answer = "partial" /\ r = Opener /\ Return(r, "dropped")
       \/ rpcs[r].answer \notin {"full", "partial"} /\ Return(r, rpcs[r].answer)
    /\ token' = IF r = Opener /\ rpcs[r].answer = "full" THEN rpcs[r].with ELSE token
    /\ calm' = IF r = Opener THEN calm \cap {r} ELSE calm
    /\ UNCHANGED serverVars

(* The timeout drops the call wherever it is.                                *)
Timeout(r) ==
    /\ Pc(r) \in {"ready", "called", "renewing"}
    /\ Timed(CallOf(r))
    /\ Return(r, "timeout")
    /\ UNCHANGED <<token, calm, serverVars>>

StubNext ==
    \/ Expire
    \/ \E r \in Requests : Submit(r) \/ Inject(r) \/ Serve(r) \/ Authenticate(r) \/ Renew(r)
                           \/ Renewed(r) \/ Deliver(r) \/ Timeout(r)

(* Only the timer is relied on; the server may stay silent.                  *)
StubFairness == \A r \in Requests : WF_rpcVars(Timeout(r))

StubSpec == StubInit /\ [][StubNext]_rpcVars /\ StubFairness

-----------------------------------------------------------------------------
(* Every method is answered by the response it matches on: no request ends   *)
(* in UnexpectedRequestType or UnexpectedResponseType.                       *)
MethodsMatch == \A r \in Requests : rpcs[r].result # "unexpected"

(* A request is carried out at most once, although it may be sent twice.     *)
ExecutedOnce == \A r \in Requests : executed[r] <= 1

(* One renewal is enough: a request does not end with an invalid token,      *)
(* whatever token it found (none, an expired one, one that a renewal cut     *)
(* short left behind), as long as no token expires and no other request      *)
(* renews the shared token meanwhile. When another one does, its reset can   *)
(* come before the second call of this one, which then fails.                *)
OneRenewalSuffices == \A r \in calm : rpcs[r].result # "invalid"

(* Requests under the timeout return, and so does the opening of a           *)
(* transaction, even if the server never answers.                            *)
TimedReturn == \A r \in Requests :
    Pc(r) \in {"ready", "called", "renewing"} /\ rpcs[r].method \notin {"import_database", "database_export"}
        ~> Pc(r) = "returned"

=============================================================================
