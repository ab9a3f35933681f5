------------------------------ MODULE UserStore -------------------------------
(***************************************************************************)
(* The users of the web portal: repository/users.go, and the calls of      *)
(* server/server.go and handlers/clients.go that reach it.                 *)
(*                                                                         *)
(* Each SQL statement is atomic, the sequences of statements are not: every *)
(* request runs in a goroutine of its own and nothing spans its statements. *)
(* The table outlives the process.                                         *)
(***************************************************************************)
EXTENDS Integers, FiniteSets

CONSTANTS Requests,   \* goroutines of the HTTP server
          Usernames,
          Admin,      \* the user InitDB creates
          Addresses,  \* addresses requests come from
          NoRow

VARIABLES up,         \* the process runs and InitDB is over
          table,      \* the table user_info is there
          rows,       \* user_info: what is stored under each username
          req,        \* place of each request
          mixed       \* history: users whose logins overlapped or broke off

userVars == <<up, table, rows, req, mixed>>

IdleReq == [at |-> "idle"]
Nothing == <<>>
Row == [token : {Nothing} \cup {<<u>> : u \in Usernames},
        whitelist : Addresses \cup {Nothing}, writer : Addresses \cup {Nothing}]

ASSUME UsersAssumption == Admin \in Usernames /\ NoRow \notin Row /\ Nothing \notin Addresses

NewRow == [token |-> Nothing, whitelist |-> Nothing, writer |-> Nothing]

UserInit ==
  /\ up = FALSE /\ table = FALSE
  /\ rows = [u \in Usernames |-> NoRow]
  /\ req = [r \in Requests |-> IdleReq]
  /\ mixed = {}

\* InitDB: the table is made if it is not there, the administrator is looked
\* up and created if missing.  When the table cannot be made InitDB returns and
\* the server runs on; when a later statement fails the process ends.
InitDB ==
  /\ ~up
  /\ \/ /\ up' = TRUE /\ table' = TRUE
        /\ rows' = IF rows[Admin] = NoRow THEN [rows EXCEPT ![Admin] = NewRow] ELSE rows
     \/ up' = TRUE /\ UNCHANGED <<table, rows>>
     \/ table' = TRUE /\ UNCHANGED <<up, rows>>
  /\ UNCHANGED <<req, mixed>>

\* The process ends: the requests go with it.
Restart ==
  /\ up
  /\ up' = FALSE
  /\ req' = [r \in Requests |-> IdleReq]
  /\ mixed' = mixed \cup {req[r].user : r \in {q \in Requests : req[q].at = "whitelist"}}
  /\ UNCHANGED <<table, rows>>

\* The handlers of POST /users and of the login form begin.
Begin(r) ==
  /\ up /\ req[r] = IdleReq
  /\ \E u \in Usernames :
       \/ req' = [req EXCEPT ![r] = [at |-> "fetch", user |-> u]]
       \/ \E a \in Addresses :
            req' = [req EXCEPT ![r] = [at |-> "select", user |-> u, from |-> a]]
  /\ UNCHANGED <<up, table, rows, mixed>>

\* The request is answered, with an error unless something says otherwise.
Answer(r) == req' = [req EXCEPT ![r] = IdleReq]

\* Server.CreateUser: only sql.ErrNoRows leads on to Create, which a table that
\* is not there does not answer.
CreateFetch(r) ==
  /\ req[r].at = "fetch"
  /\ \/ table /\ rows[req[r].user] = NoRow /\ req' = [req EXCEPT ![r].at = "exists"]
     \/ Answer(r)
  /\ UNCHANGED <<up, table, rows, mixed>>

\* Create looks the username up once more.
CreateExists(r) ==
  /\ req[r].at = "exists"
  /\ \/ rows[req[r].user] = NoRow /\ req' = [req EXCEPT ![r].at = "insert"]
     \/ Answer(r)
  /\ UNCHANGED <<up, table, rows, mixed>>

\* The insertion: username is UNIQUE, so the second of two that both found no
\* row is refused by the database.
CreateInsert(r) ==
  /\ req[r].at = "insert"
  /\ Answer(r)
  /\ \/ /\ rows[req[r].user] = NoRow
        /\ rows' = [rows EXCEPT ![req[r].user] = NewRow]
     \/ UNCHANGED rows
  /\ UNCHANGED <<up, table, mixed>>

\* The others that are between the statements of a login of the same user.
Between(r) == {q \in Requests \ {r} : req[q].at = "whitelist" /\ req[q].user = req[r].user}

\* GetUserByUserPassword: the row with this password is found; a token is made
\* from the username (generateJWT; its expiry, which nobody looks up in the
\* table, is left out: logins of one second share their token anyway).
LoginSelect(r) ==
  /\ req[r].at = "select"
  /\ \/ /\ rows[req[r].user] # NoRow
        /\ req' = [req EXCEPT ![r] = [at |-> "token", user |-> @.user, from |-> @.from,
                                      token |-> <<@.user>>]]
     \/ Answer(r)
  /\ UNCHANGED <<up, table, rows, mixed>>

\* UpdateUserToken, the first statement of two.
UpdateUserToken(r) ==
  /\ req[r].at = "token"
  /\ \/ /\ rows' = [rows EXCEPT ![req[r].user].token = req[r].token,
                                ![req[r].user].writer = req[r].from]
        /\ req' = [req EXCEPT ![r].at = "whitelist"]
        /\ mixed' = IF Between(r) # {} THEN mixed \cup {req[r].user} ELSE mixed
     \/ Answer(r) /\ UNCHANGED <<rows, mixed>>
  /\ UNCHANGED <<up, table>>

\* Mutant: the list is left alone when the user has one.
MutUpdateUserIPWhitelist(r) ==
  /\ req[r].at = "whitelist"
  /\ Answer(r)
  /\ rows' = IF rows[req[r].user].whitelist = Nothing
             THEN [rows EXCEPT ![req[r].user].whitelist = req[r].from] ELSE rows
  /\ mixed' = mixed
  /\ UNCHANGED <<up, table>>

\* UpdateUserIPWhitelist, the second; when it fails the login is refused, and
\* the token it has stored stays.
UpdateUserIPWhitelist(r) ==
  /\ req[r].at = "whitelist"
  /\ Answer(r)
  /\ \/ /\ rows' = [rows EXCEPT ![req[r].user].whitelist = req[r].from]
        /\ mixed' = mixed
     \/ /\ UNCHANGED rows
        /\ mixed' = mixed \cup {req[r].user}
  /\ UNCHANGED <<up, table>>

UserNext ==
  \/ InitDB \/ Restart
  \/ \E r \in Requests :
       \/ Begin(r) \/ CreateFetch(r) \/ CreateExists(r) \/ CreateInsert(r)
       \/ LoginSelect(r) \/ UpdateUserToken(r) \/ UpdateUserIPWhitelist(r)

UserSpec == UserInit /\ [][UserNext]_userVars

-----------------------------------------------------------------------------
(* What the readers of the table answer.                                   *)

\* GetUserByToken and GetUserIPWhitelisted: the users a token stands for, and
\* the addresses they may use.
GetUserByToken(token) == {u \in Usernames : rows[u] # NoRow /\ rows[u].token = token}
GetUserIPWhitelisted(token) ==
  {rows[u].whitelist : u \in GetUserByToken(token)} \ {Nothing}

\* GetAllUser, without the passwords.
GetAllUser == {u \in Usernames : rows[u] # NoRow}

UserTypeOK ==
  /\ up \in BOOLEAN /\ table \in BOOLEAN /\ mixed \subseteq Usernames
  /\ rows \in [Usernames -> Row \cup {NoRow}]
  /\ \A u \in Usernames : rows[u] = NoRow \/ rows[u].token \in {Nothing, <<u>>}
  /\ req \in [Requests ->
       {IdleReq} \cup [at : {"fetch", "exists", "insert"}, user : Usernames]
         \cup [at : {"select"}, user : Usernames, from : Addresses]
         \cup [at : {"token", "whitelist"}, user : Usernames, from : Addresses,
               token : {<<u>> : u \in Usernames}]]

\* Token and address are written by two statements (server.go:183): the
\* address a token is good for is that of the login which wrote the token,
\* unless logins of the user overlapped, or one broke off between the two.
TokenFitsAddress ==
  \A u \in GetAllUser \ mixed :
    (\A r \in Requests : ~(req[r].at = "whitelist" /\ req[r].user = u))
      /\ rows[u].token # Nothing =>
        GetUserIPWhitelisted(rows[u].token) = {rows[u].writer}
=============================================================================
