----------------------------- MODULE UserTable ------------------------------
(***************************************************************************)
(* Registration and login in HttpConn::do_request: the map "users", which  *)
(* caches the table "user" of the database, and the workers that look      *)
(* names up in it without a lock and add names under m_lock.               *)
(*                                                                         *)
(* The database is external.  UniqueNames says whether the table has a key *)
(* on its names; with or without it an INSERT may also fail for reasons of *)
(* its own.  A look-up that meets the insertion of another worker reads a  *)
(* tree that is being rebalanced (a data race): it may miss a name.        *)
(***************************************************************************)
EXTENDS Integers

CONSTANTS Workers, Names, Passwords, NoPassword, NoWorker, UniqueNames

ASSUME UserAssumption ==
    /\ NoPassword \notin Passwords /\ NoWorker \notin Workers /\ UniqueNames \in BOOLEAN

VARIABLES users,      \* the map: a password for each name, or none
          table,      \* the rows of the table
          m_lock,     \* the worker that holds the lock
          upc,        \* where each worker is
          form,       \* the name and the password its request brought
          res,        \* whether its INSERT succeeded
          won,        \* history: registrations that were answered with success
          sqlFailed   \* history: an INSERT failed for a reason of its own

userVars == <<users, table, m_lock, upc, form, res, won, sqlFailed>>

Known(n) == users[n] # NoPassword
InTable(n) == \E p \in Passwords : <<n, p>> \in table

\* init_mysql_result(): the last row of a name wins.
Loaded(t) ==
    {f \in [Names -> Passwords \cup {NoPassword}] :
        \A n \in Names : IF \E p \in Passwords : <<n, p>> \in t
                         THEN <<n, f[n]>> \in t ELSE f[n] = NoPassword}

UserInit ==
    /\ table = {} /\ users \in Loaded(table)
    /\ m_lock = NoWorker
    /\ upc = [w \in Workers |-> "idle"]
    /\ form \in [Workers -> Names \X Passwords]
    /\ res = [w \in Workers |-> FALSE]
    /\ won = {} /\ sqlFailed = FALSE

User_Request(w) ==
    /\ upc[w] = "idle"
    /\ \E op \in {"register", "login"}, n \in Names, p \in Passwords :
         /\ upc' = [upc EXCEPT ![w] = op]
         /\ form' = [form EXCEPT ![w] = <<n, p>>]
    /\ UNCHANGED <<users, table, m_lock, res, won, sqlFailed>>

\* users.find(name) != users.end(), as this worker sees it.
Finds(w, seen) ==
    \/ seen = Known(form[w][1])
    \/ seen = FALSE /\ \E v \in Workers \ {w} : upc[v] = "insert"

\* The look-up of a registration; a known name is refused.
User_Find(w) ==
    /\ upc[w] = "register"
    /\ \E seen \in BOOLEAN :
         /\ Finds(w, seen)
         /\ upc' = [upc EXCEPT ![w] = IF seen THEN "idle" ELSE "lock"]
    /\ UNCHANGED <<users, table, m_lock, form, res, won, sqlFailed>>

\* Fault: registrations do not exclude each other.
Fault_NoLock(w) ==
    /\ upc[w] = "lock"
    /\ upc' = [upc EXCEPT ![w] = "query"]
    /\ UNCHANGED <<users, table, m_lock, form, res, won, sqlFailed>>

User_Lock(w) ==
    /\ upc[w] = "lock" /\ m_lock = NoWorker
    /\ m_lock' = w
    /\ upc' = [upc EXCEPT ![w] = "query"]
    /\ UNCHANGED <<users, table, form, res, won, sqlFailed>>

\* mysql_query(m_mysql, sql_insert)
User_Query(w) ==
    /\ upc[w] = "query"
    /\ upc' = [upc EXCEPT ![w] = "insert"]
    /\ \/ /\ UniqueNames => ~InTable(form[w][1])
          /\ table' = table \cup {form[w]}
          /\ res' = [res EXCEPT ![w] = TRUE]
          /\ UNCHANGED sqlFailed
       \/ /\ UniqueNames /\ InTable(form[w][1])
          /\ res' = [res EXCEPT ![w] = FALSE]
          /\ UNCHANGED <<table, sqlFailed>>
       \/ /\ res' = [res EXCEPT ![w] = FALSE]
          /\ sqlFailed' = TRUE
          /\ UNCHANGED table
    /\ UNCHANGED <<users, m_lock, form, won>>

\* users.insert(), whatever the query said; it leaves a name that is there alone.
User_Insert(w) ==
    /\ upc[w] = "insert"
    /\ users' = IF Known(form[w][1]) THEN users
                ELSE [users EXCEPT ![form[w][1]] = form[w][2]]
    /\ upc' = [upc EXCEPT ![w] = "unlock"]
    /\ UNCHANGED <<table, m_lock, form, res, won, sqlFailed>>

\* unlock() and the page: log.html if the INSERT succeeded.
User_Unlock(w) ==
    /\ upc[w] = "unlock"
    /\ m_lock' = NoWorker
    /\ upc' = [upc EXCEPT ![w] = "idle"]
    /\ won' = IF res[w] THEN won \cup {form[w]} ELSE won
    /\ UNCHANGED <<users, table, form, res, sqlFailed>>

\* A login looks the name up and compares the password.
User_Login(w) ==
    /\ upc[w] = "login"
    /\ upc' = [upc EXCEPT ![w] = "idle"]
    /\ UNCHANGED <<users, table, m_lock, form, res, won, sqlFailed>>

\* The server stops at any point and is started again: the table survives, the map
\* is loaded from it.
User_Restart ==
    /\ users' \in Loaded(table)
    /\ m_lock' = NoWorker
    /\ upc' = [w \in Workers |-> "idle"]
    /\ UNCHANGED <<table, form, res, won, sqlFailed>>

UserStep(w) ==
    \/ User_Request(w) \/ User_Find(w) \/ User_Lock(w) \/ User_Query(w)
    \/ User_Insert(w) \/ User_Unlock(w) \/ User_Login(w)

UserNext == User_Restart \/ \E w \in Workers : UserStep(w)

UserSpec == UserInit /\ [][UserNext]_userVars

-----------------------------------------------------------------------------
(* Properties *)

UserTypeOK ==
    /\ users \in [Names -> Passwords \cup {NoPassword}]
    /\ table \subseteq Names \X Passwords
    /\ m_lock \in Workers \cup {NoWorker}
    /\ upc \in [Workers -> {"idle", "register", "login", "lock", "query", "insert", "unlock"}]
    /\ form \in [Workers -> Names \X Passwords]
    /\ res \in [Workers -> BOOLEAN]
    /\ won \subseteq Names \X Passwords
    /\ sqlFailed \in BOOLEAN

\* Whoever was answered log.html can log in with that password, also when two
\* workers register one name at a time and after a restart, provided that the table
\* has a key on its names and no INSERT failed otherwise: do_request() caches the
\* name even when its INSERT fails, and refuses that name from then on.
WinnerCanLogIn ==
    UniqueNames /\ ~sqlFailed => \A r \in won : users[r[1]] = r[2]

\* No name of the table is unknown to the map, except the one whose worker is
\* between the query and the insertion, so it cannot be registered again.
CacheCoversTable ==
    \A n \in Names : InTable(n) =>
        Known(n) \/ \E w \in Workers : upc[w] = "insert" /\ form[w][1] = n

\* While the server runs the password of a name never changes.
PasswordKept ==
    [][\A w \in Workers : UserStep(w) => \A n \in Names : Known(n) => users'[n] = users[n]]_userVars
=============================================================================
