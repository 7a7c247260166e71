-------------------------------- MODULE Log --------------------------------
(***************************************************************************)
(* Vcluster_log beside the queue of exchanges (builds with VERBOSE_TEST).  *)
(* In every turn of the loop that waits for the barrier a rank may write a *)
(* report, so that somebody can see where a program is stuck: the sends of *)
(* req with the processors that s_log names for them, position by position,*)
(* and the messages received, from r_log.  The log learns of sends in      *)
(* queue_all_sends only, and of receives in progressCommunication; it is   *)
(* emptied where the loop has ended.                                       *)
(*                                                                         *)
(* When the report is due (the timer) is left out: any turn may write one. *)
(***************************************************************************)
EXTENDS NBXQueue

(***************************************************************************)
(* What the log needs of an application beside the discipline of the queue.*)
(***************************************************************************)
\* Nothing waits for all requests while a call of the barrier protocol is
\* queued: req would be emptied, and s_log not.
ExecuteAlone(pr) ==
    \A c \in DOMAIN pr : pr[c].op \in Executes => ~Pending(pr, c, {"unknown"})

LogDisciplined == Disciplined /\ \A pr \in Programs : ExecuteAlone(pr) /\ OneEach(pr)

VARIABLES
    s_log,          \* s_log[p]: sends logged; req has them in the same order
    r_log           \* r_log[p]: messages received and logged

logVars == <<vars, s_log, r_log>>

Logged(m) == [prc |-> m.dst, call |-> m.call]

LogInit ==
    /\ Init
    /\ s_log = [p \in Proc |-> {}]
    /\ r_log = [p \in Proc |-> {}]

\* log.logSend(prc[i]), beside the request that was just added.
logSend(p) ==
    s_log' = [s_log EXCEPT ![p] =
        @ \cup {Logged(m) : m \in Outgoing(p, ip[p], "sparse", "data", 0)}]

\* log.logRecv(stat_t), for the message that was received.
logRecv(p) ==
    r_log' = [r_log EXCEPT ![p] = @ \cup {[prc |-> g.msg.src, call |-> g.call] : g \in got'[p] \ got[p]}]

\* Seeded faults: clear() forgets one of the two lists.
clear_NoSends(p) == r_log' = [r_log EXCEPT ![p] = {}] /\ UNCHANGED s_log
clear_NoReceives(p) == s_log' = [s_log EXCEPT ![p] = {}] /\ UNCHANGED r_log

clear(p) ==
    /\ s_log' = [s_log EXCEPT ![p] = {}]
    /\ r_log' = [r_log EXCEPT ![p] = {}]

\* NBXreport: the sends with their status, the receives, and the barrier.
\* MPI_Request_get_status is asked about position i of req, s_log about the
\* same position; with as many of both, they are of the same send.  A send
\* that was not logged has no name.
NBXreport(p) ==
    [matches |-> {Logged(r.of) : r \in {x \in req[p] : x.op = "issend"}} = s_log[p]
                 /\ Cardinality(req[p]) = Cardinality(s_log[p]),
     pending |-> {Logged(r.of) : r \in {x \in req[p] : x.op = "issend" /\ ~Complete(x, flight, posted)}}
                    \cap s_log[p],
     received |-> r_log[p],
     barrier |-> reached[p][at[p]]]

LogNext ==
    \/ \E p \in Proc :
        \/ QueueUnknown(p) /\ logSend(p) /\ UNCHANGED r_log
        \/ (UserProgress(p) \/ WaitProgress(p)) /\ logRecv(p) /\ UNCHANGED s_log
        \/ WaitUnknown(p) /\ clear(p)
        \/ /\ \/ QueueKnown(p) \/ Refused(p) \/ Wait(p) \/ WaitSizes(p) \/ WaitKnown(p) \/ WaitAgain(p)
              \/ StartKnownSync(p) \/ KnownSyncData(p) \/ EndKnownSync(p) \/ Reduce(p) \/ Execute(p)
           /\ UNCHANGED <<s_log, r_log>>
    \/ /\ \/ \E r \in posted, m \in flight : Match(r, m)
          \/ \E r \in reducing : Deliver(r)
          \/ Finished
       /\ UNCHANGED <<s_log, r_log>>

LogSpec == LogInit /\ [][LogNext]_logVars /\ Fairness

----------------------------------------------------------------------------
(* "req and s_log must match": whenever a report may be written and only   *)
(* calls of the barrier protocol are queued, each request has the entry of *)
(* its send, although one call's end empties both lists for all slots.     *)
ReportMatches ==
    \A p \in Proc :
        pc[p] = "test" /\ (\A i \in Slots : NBX_active[p][i] \in {"unactive", "unknown"}) =>
            NBXreport(p).matches

(* What the report is for: it names every send of the rank that nobody has *)
(* received yet, of this call and of those queued behind it, and no message*)
(* received in a call that has returned.                                   *)
ReportComplete ==
    \A p \in Proc : pc[p] = "test" =>
        /\ NBXreport(p).pending = {Logged(m) : m \in {x \in flight : x.src = p /\ x.cls = "sparse"}}
        /\ \A e \in NBXreport(p).received : e.call \notin finished[p]

=============================================================================
