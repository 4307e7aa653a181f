------------------------------ MODULE Session ------------------------------
(***************************************************************************)
(* Who gator is signed in as: the commands that change it (login,          *)
(* register, logout, init: internal/cli), the two files it is kept in      *)
(* (internal/config, internal/credentials), the tokens of the servers      *)
(* (internal/api), what opens from the files (open, the middleware, the    *)
(* menus), and the snapshot of the offline store, one file for all         *)
(* servers.                                                                *)
(*                                                                         *)
(* Commands run in processes of their own, in several terminals at once.   *)
(* Each write of a file is atomic (a rename); a process may die between    *)
(* any two steps.  A token is a number, new each time; the database and    *)
(* the themes a config names are left out but for whether one is named.    *)
(***************************************************************************)
EXTENDS Integers, Sequences

CONSTANTS
    Servers, Names,  \* an account is a name at a server
    None,            \* no server, no user, no file, no token
    Procs,           \* processes
    MaxTokens        \* bound: logins the servers answer

ASSUME SessionAssumption ==
    /\ MaxTokens \in Nat
    /\ None \notin Servers \cup Names \cup (1..MaxTokens)
    /\ None \notin [server : Servers, token : 1..MaxTokens]

VARIABLES
    config,    \* .gatorconfig.json
    creds,     \* .gatorcredentials.json
    cache,     \* .gator-cache.json: whose user, whose marks
    live,      \* api_tokens, of every server
    owner,     \* the account each token was issued to
    up,        \* requests reach the servers
    proc       \* the processes

vars == <<config, creds, cache, live, owner, up, proc>>

Account == [server : Servers, name : Names]
Tokens  == 1..MaxTokens

NoFile == [server |-> None, user |-> None, marks |-> None]
Idle   == [cmd |-> "none", stage |-> "idle"]

Config == [exists : BOOLEAN, server : Servers \cup {None},
           user : Names \cup {None}, db : BOOLEAN]
Creds  == [server : Servers, token : Tokens] \cup {None}
Cache  == [server : Servers \cup {None}, user : Account \cup {None},
           marks : Account \cup {None}]
Reader == [cmd : {"reader"}, stage : {"me", "reading"}, server : Servers,
           token : Tokens, snap : Cache]
Command ==
    [cmd : {"login"}, stage : {"save", "read", "note", "done"}, as : Account,
     cfg : Config, token : Tokens, crossed : BOOLEAN]
    \cup
    [cmd : {"logout"}, stage : {"revoke", "delete", "forget", "done"},
     cfg : Config, token : Tokens \cup {None}, warned : BOOLEAN,
     crossed : BOOLEAN]
    \cup
    [cmd : {"local"}, stage : {"note"}, cfg : {c \in Config : c.server = None},
     name : Names \cup {None}]

TypeOK ==
    /\ config \in Config /\ (config.server # None => config.user # None)
    /\ creds \in Creds
    /\ cache \in Cache
    /\ live \subseteq DOMAIN owner
    /\ owner \in Seq(Account) /\ Len(owner) <= MaxTokens
    /\ up \in BOOLEAN
    /\ proc \in [Procs -> Reader \cup Command \cup {Idle}]

Init ==
    /\ config \in {[exists |-> FALSE, server |-> None, user |-> None, db |-> FALSE],
                   [exists |-> TRUE, server |-> None, user |-> None, db |-> TRUE]}
    /\ creds = None
    /\ cache = NoFile
    /\ live = {}
    /\ owner = <<>>
    /\ up = TRUE
    /\ proc = [p \in Procs |-> Idle]

servers == <<live, owner>>

-----------------------------------------------------------------------------
(* credentials.Load: a token of another server is no token. *)
LoadAny(server) == IF creds = None THEN None ELSE creds.token

Load(server) ==
    IF creds = None \/ creds.server # server THEN None ELSE creds.token

(* Another process has written one of the two files. *)
Cross(p, ps) ==
    [q \in Procs |-> IF q # p /\ ps[q].cmd \in {"login", "logout"}
                     THEN [ps[q] EXCEPT !.crossed = TRUE] ELSE ps[q]]
To(p, stage)    == proc' = [proc EXCEPT ![p].stage = stage]
Wrote(p, stage) == proc' = [Cross(p, proc) EXCEPT ![p].stage = stage]
End(p)          == proc' = [proc EXCEPT ![p] = Idle]

-----------------------------------------------------------------------------
(* login --server, and register on one: a token is issued, and the files   *)
(* are written one after the other.                                        *)

Login(p, a) ==
    /\ proc[p] = Idle
    /\ up /\ Len(owner) < MaxTokens
    /\ owner' = Append(owner, a)
    /\ live' = live \cup {Len(owner) + 1}
    /\ \/ proc' = [proc EXCEPT ![p] =
                      [cmd |-> "login", stage |-> "save", as |-> a,
                       cfg |-> config, token |-> Len(owner) + 1,
                       crossed |-> FALSE]]
       \/ UNCHANGED proc  \* the reply is lost, the token is not
    /\ UNCHANGED <<config, creds, cache, up>>

SaveCredentials(p) ==
    /\ proc[p].cmd = "login" /\ proc[p].stage = "save"
    /\ creds' = [server |-> proc[p].as.server, token |-> proc[p].token]
    /\ Wrote(p, "read")
    /\ UNCHANGED <<config, cache, servers, up>>

ReadConfig(p) ==
    /\ proc[p].cmd = "login" /\ proc[p].stage = "read"
    /\ proc' = [proc EXCEPT ![p].stage = "note", ![p].cfg = config]
    /\ UNCHANGED <<config, creds, cache, servers, up>>

(* The rest of a config that is there is kept. *)
SaveConfig(p) ==
    /\ proc[p].cmd = "login" /\ proc[p].stage = "note"
    /\ config' = [proc[p].cfg EXCEPT !.exists = TRUE,
                                     !.server = proc[p].as.server,
                                     !.user = proc[p].as.name]
    /\ Wrote(p, "done")
    /\ UNCHANGED <<creds, cache, servers, up>>

-----------------------------------------------------------------------------
(* logout: the config is read once, at the start, and written at the end.  *)

Logout(p) ==
    /\ proc[p] = Idle
    /\ config.exists /\ config.server # None
    /\ proc' = [proc EXCEPT ![p] =
                   [cmd |-> "logout", stage |-> "revoke", cfg |-> config,
                    token |-> Load(config.server), warned |-> FALSE,
                    crossed |-> FALSE]]
    /\ UNCHANGED <<config, creds, cache, servers, up>>

(* With no server there is only a name to forget. *)
LogoutLocal(p) ==
    /\ proc[p] = Idle
    /\ config.exists /\ config.server = None /\ config.user # None
    /\ proc' = [proc EXCEPT ![p] = [cmd |-> "local", stage |-> "note",
                                    cfg |-> config, name |-> None]]
    /\ UNCHANGED <<config, creds, cache, servers, up>>

RevokeOrStop(p) ==
    /\ proc[p].cmd = "logout" /\ proc[p].stage = "revoke"
    /\ LET t == proc[p].token
       IN /\ live' = IF t # None /\ up THEN live \ {t} ELSE live
          /\ To(p, IF up THEN "delete" ELSE "done")
    /\ UNCHANGED <<config, creds, cache, owner, up>>

(* A server that cannot be reached, or does not know the token, is only    *)
(* worth a warning; without a token it is not asked.                       *)
Revoke(p) ==
    /\ proc[p].cmd = "logout" /\ proc[p].stage = "revoke"
    /\ LET t == proc[p].token
       IN /\ live' = IF t # None /\ up THEN live \ {t} ELSE live
          /\ proc' = [proc EXCEPT ![p].stage = "delete",
                                  ![p].warned = t # None /\ (~up \/ t \notin live)]
    /\ UNCHANGED <<config, creds, cache, owner, up>>

DeleteCredentials(p) ==
    /\ proc[p].cmd = "logout" /\ proc[p].stage = "delete"
    /\ creds' = None
    /\ Wrote(p, "forget")
    /\ UNCHANGED <<config, cache, servers, up>>

ForgetServer(p) ==
    /\ proc[p].cmd = "logout" /\ proc[p].stage = "forget"
    /\ config' = [proc[p].cfg EXCEPT !.server = None, !.user = None]
    /\ Wrote(p, "done")
    /\ UNCHANGED <<creds, cache, servers, up>>

-----------------------------------------------------------------------------
(* login and register without a server; init *)

LoginLocal(p, n) ==
    /\ proc[p] = Idle
    /\ config.exists /\ config.server = None /\ config.db
    /\ proc' = [proc EXCEPT ![p] = [cmd |-> "local", stage |-> "note",
                                    cfg |-> config, name |-> n]]
    /\ UNCHANGED <<config, creds, cache, servers, up>>

(* SetUsername, and the logout of a local user, write the config that was  *)
(* read at the start (before the database was asked): what another process *)
(* wrote meanwhile is undone.                                              *)
SetUsername(p) ==
    /\ proc[p].cmd = "local"
    /\ config' = [proc[p].cfg EXCEPT !.user = proc[p].name]
    /\ proc' = [Cross(p, proc) EXCEPT ![p] = Idle]
    /\ UNCHANGED <<creds, cache, servers, up>>

(* init, or init --force over a config that is there: the server it named  *)
(* is forgotten, the credentials are not.  Then it may create a user.      *)
InitConfig(p) ==
    /\ proc[p] = Idle
    /\ config' = [exists |-> TRUE, server |-> None, user |-> None, db |-> TRUE]
    /\ \/ proc' = Cross(p, proc)
       \/ \E n \in Names :
             proc' = [Cross(p, proc) EXCEPT ![p] =
                         [cmd |-> "local", stage |-> "note",
                          cfg |-> config', name |-> n]]
    /\ UNCHANGED <<creds, cache, servers, up>>

(* The process ends: it is done, or it dies on the way. *)
Exit(p) ==
    /\ proc[p] # Idle
    /\ End(p)
    /\ UNCHANGED <<config, creds, cache, servers, up>>

-----------------------------------------------------------------------------
(* The reader, or any command that needs the account, at a server *)

Me(p) == owner[proc[p].token]

Snapshot(server) ==
    IF cache.server = server THEN cache ELSE [NoFile EXCEPT !.server = server]

Open(p) ==
    /\ proc[p] = Idle
    /\ config.exists /\ config.server # None
    /\ Load(config.server) # None
    /\ proc' = [proc EXCEPT ![p] =
                   [cmd |-> "reader", stage |-> "me", server |-> config.server,
                    token |-> Load(config.server),
                    snap |-> Snapshot(config.server)]]
    /\ UNCHANGED <<config, creds, cache, servers, up>>

(* A call the server answered, and what it has to say is cached. *)
Answered(p, snap) ==
    /\ up /\ proc[p].token \in live
    /\ cache' = IF snap = proc[p].snap THEN cache ELSE snap
    /\ proc' = [proc EXCEPT ![p].stage = "reading", ![p].snap = snap]
    /\ UNCHANGED <<config, creds, servers, up>>

(* middlewareLoggedIn: without the server the cache says who is reading.   *)
AskMe(p) ==
    /\ proc[p].cmd = "reader" /\ proc[p].stage = "me"
    /\ \/ Answered(p, [proc[p].snap EXCEPT !.user = Me(p)])
       \/ /\ IF ~up /\ proc[p].snap.user # None THEN To(p, "reading") ELSE End(p)
          /\ ~(up /\ proc[p].token \in live)
          /\ UNCHANGED <<config, creds, cache, servers, up>>

AskMarks(p) ==
    /\ proc[p].cmd = "reader" /\ proc[p].stage = "reading"
    /\ Answered(p, [proc[p].snap EXCEPT !.marks = Me(p)])

Outage == up' = ~up /\ UNCHANGED <<config, creds, cache, servers, proc>>

Next ==
    \/ \E p \in Procs :
          \/ \E a \in Account : Login(p, a)
          \/ SaveCredentials(p) \/ ReadConfig(p) \/ SaveConfig(p)
          \/ Logout(p) \/ LogoutLocal(p) \/ Revoke(p)
          \/ DeleteCredentials(p) \/ ForgetServer(p)
          \/ \E n \in Names : LoginLocal(p, n)
          \/ SetUsername(p) \/ InitConfig(p) \/ Exit(p)
          \/ Open(p) \/ AskMe(p) \/ AskMarks(p)
    \/ Outage

Spec == Init /\ [][Next]_vars

-----------------------------------------------------------------------------
(* Whatever the files were left in by commands that crossed or died, no    *)
(* process holds the token of one server for requests to another, and what *)
(* it shows while it cannot reach its server came from that server.        *)
ServersStayApart ==
    \A p \in Procs :
        /\ proc[p].cmd = "reader" =>
              /\ Me(p).server = proc[p].server
              /\ \A a \in {proc[p].snap.user, proc[p].snap.marks} \ {None} :
                    a.server = proc[p].server
        /\ proc[p].cmd = "logout" /\ proc[p].token # None
           => Me(p).server = proc[p].cfg.server

(* A command that says it is done has done it, unless another one wrote    *)
(* the files meanwhile.  After a login the account opens; after a logout   *)
(* the server is forgotten and the own database is the one there was       *)
(* (README.md: "forget the server and go back to your own database"), and  *)
(* the token is good for nothing more, or the user was warned.             *)
CommandsDoWhatTheySay ==
    \A p \in Procs :
        LET k == proc[p]
        IN /\ k.cmd = "login" /\ k.stage = "done" /\ ~k.crossed
              => /\ config = [exists |-> TRUE, server |-> k.as.server,
                              user |-> k.as.name, db |-> k.cfg.db]
                 /\ Load(k.as.server) = k.token
           /\ k.cmd = "logout" /\ k.stage = "done" /\ ~k.crossed
              => /\ config = [k.cfg EXCEPT !.server = None, !.user = None]
                 /\ \A s \in Servers : Load(s) = None
                 /\ k.warned \/ k.token \notin live

=============================================================================
