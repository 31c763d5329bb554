--------------------------- MODULE BrokerSession ---------------------------
(***************************************************************************)
(* The session's credential daemon as the run sees it                      *)
(* (cli.sessionBrokerSocket, startBrokerd) and as it starts (cmdBrokerd):  *)
(* a socket in a directory per box name, a child process that binds it,    *)
(* and a parent that waits for a file to be at the path.  What the daemon  *)
(* serves once it listens is module Broker.                                *)
(*                                                                         *)
(* A socket file is identified with the run whose daemon bound it.  It     *)
(* stays when that daemon dies.                                            *)
(***************************************************************************)
EXTENDS HostRuns

VARIABLES
  dir,      \* the socket directory of each box name exists
  sock,     \* broker.sock in it
  daemon,   \* the child of each run
  cleanup,  \* the broker's cleanup: none registered, remove, or stop and remove
  mount     \* the socket that was bound into the run's box

brokerVars == <<dir, sock, daemon, cleanup, mount>>

Live == {"starting", "clear", "listen", "serving"}

BrokerInit ==
  /\ dir = [b \in Boxes |-> FALSE]
  /\ sock = [b \in Boxes |-> Nobody]
  /\ daemon = [r \in Runs |-> "none"]
  /\ cleanup = [r \in Runs |-> "none"]
  /\ mount = [r \in Runs |-> Nobody]

-----------------------------------------------------------------------------
(* The run.                                                                *)

\* os.RemoveAll of the directory, whosever socket is in it.
RemoveDir(r) ==
  /\ dir' = [dir EXCEPT ![Box[r]] = FALSE]
  /\ sock' = [sock EXCEPT ![Box[r]] = Nobody]

\* No App or no github.com origin, or no place for the directory: no broker.
NoBroker(r) == Step(r, "sockdir", "run") /\ UNCHANGED brokerVars

\* A dry run makes the directory, shows the mount and registers the removal.
SocketDir(r) ==
  /\ "app" \in use[r]
  /\ \/ Step(r, "sockdir", "spawn") /\ UNCHANGED cleanup
     \/ Step(r, "sockdir", "run") /\ cleanup' = [cleanup EXCEPT ![r] = "remove"]
  /\ dir' = [dir EXCEPT ![Box[r]] = TRUE]
  /\ UNCHANGED <<sock, daemon, mount>>

\* cmd.Start; its failure is startBrokerd's, and the caller removes the
\* directory.
Spawn(r) ==
  \/ /\ Step(r, "spawn", "poll")
     /\ daemon' = [daemon EXCEPT ![r] = "starting"]
     /\ UNCHANGED <<dir, sock, cleanup, mount>>
  \/ /\ Step(r, "spawn", "run")
     /\ RemoveDir(r)
     /\ UNCHANGED <<daemon, cleanup, mount>>

\* os.Stat: any file at the path will do.
Poll(r) ==
  /\ IF sock[Box[r]] # Nobody
     THEN Step(r, "poll", "run") /\ cleanup' = [cleanup EXCEPT ![r] = "stop"]
     ELSE Step(r, "poll", "wait") /\ UNCHANGED cleanup
  /\ UNCHANGED <<dir, sock, daemon, mount>>

\* Fifty milliseconds pass.
PollAgain(r) == Step(r, "wait", "poll") /\ UNCHANGED brokerVars

\* Mutant: after the timeout the daemon is left alone.
GiveUpWithoutStop(r) ==
  /\ Step(r, "wait", "run")
  /\ RemoveDir(r)
  /\ UNCHANGED <<daemon, cleanup, mount>>

\* The child has exited, or it did not come up in time and is stopped; the
\* caller removes the directory and goes on without a broker.
GiveUp(r) ==
  /\ Step(r, "wait", "run")
  /\ daemon' = [daemon EXCEPT ![r] = "dead"]
  /\ RemoveDir(r)
  /\ UNCHANGED <<cleanup, mount>>

\* docker binds the socket that is at the path when the box is made.
MountSocket(r) ==
  /\ cleanup[r] = "stop" /\ sock[Box[r]] # Nobody
  /\ mount' = [mount EXCEPT ![r] = sock[Box[r]]]
  /\ UNCHANGED <<dir, sock, daemon, cleanup>>

\* Mutant: the socket stays where it is.
CleanupKeepsSocket(r) ==
  /\ daemon' = [daemon EXCEPT ![r] = IF cleanup[r] = "stop" THEN "dead" ELSE @]
  /\ UNCHANGED <<dir, sock, cleanup, mount>>

\* The registered cleanup: stop(), then cleanup().
CleanupBroker(r) ==
  /\ daemon' = [daemon EXCEPT ![r] = IF cleanup[r] = "stop" THEN "dead" ELSE @]
  /\ IF cleanup[r] = "none" THEN UNCHANGED <<dir, sock>> ELSE RemoveDir(r)
  /\ UNCHANGED <<cleanup, mount>>

-----------------------------------------------------------------------------
(* The daemon: it outlives a run that is killed.                           *)

Daemon(r, from, to) ==
  /\ daemon[r] = from
  /\ daemon' = [daemon EXCEPT ![r] = to]
  /\ UNCHANGED <<use, at, before, cleanup, mount>>

\* The App's settings and key, then MkdirAll.
Configure(r) ==
  /\ Daemon(r, "starting", "clear")
  /\ dir' = [dir EXCEPT ![Box[r]] = TRUE]
  /\ UNCHANGED sock

\* A socket that is there is taken for a stale one.
ClearStale(r) ==
  /\ Daemon(r, "clear", "listen")
  /\ sock' = [sock EXCEPT ![Box[r]] = Nobody]
  /\ UNCHANGED dir

\* net.Listen fails if the directory is gone or the path is taken again.
Listen(r) ==
  /\ IF dir[Box[r]] /\ sock[Box[r]] = Nobody
     THEN Daemon(r, "listen", "serving") /\ sock' = [sock EXCEPT ![Box[r]] = r]
     ELSE Daemon(r, "listen", "dead") /\ UNCHANGED sock
  /\ UNCHANGED dir

\* A misconfigured App, a signal, a kill.
DaemonDies(r) ==
  /\ \E s \in Live : Daemon(r, s, "dead")
  /\ UNCHANGED <<dir, sock>>

\* Serve returns: the deferred Close removes what is at the path.
ServeEnds(r) ==
  /\ Daemon(r, "serving", "dead")
  /\ sock' = [sock EXCEPT ![Box[r]] = Nobody]
  /\ UNCHANGED dir

-----------------------------------------------------------------------------
\* "Stops the daemon and removes the socket when the run ends": a daemon that
\* lives or a socket that is there belongs to a run that has not ended, or to
\* one that was cut short, whatever other runs of the name do meanwhile.
NoStrayBroker ==
  \A r \in Runs :
    daemon[r] \in Live \/ sock[Box[r]] = r => at[r] # "done"

\* A box talks to the daemon of its own run, unless another run of the name
\* was under way at the same time or was cut short: the socket it was given
\* is never left over from a run that ended in order.
MountedBrokerIsOwn ==
  \A r \in Runs : LET s == mount[r] IN
    s \notin {Nobody, r} => s \in Namesakes(r) /\ (s \in before[r] => at[s] = "cut")
=============================================================================
