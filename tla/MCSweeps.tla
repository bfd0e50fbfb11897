------------------------------ MODULE MCSweeps ------------------------------
(***************************************************************************)
(* Two of the periodic tasks for TLC, side by side: the reminder under its *)
(* lock (SweepLock) and the mails of a store (Notices).  Each behaviour    *)
(* exercises the one that "service" names.  Unlike in MCServices, they are *)
(* checked with the fairness of both.                                      *)
(***************************************************************************)
EXTENDS SweepLock

CONSTANTS Alerts, Carts, Sweepers, Page, MaxAsked, MaxFlips, MaxLost

VARIABLES
    service,
    since, noted, lapsed, worth, turn, mails, asked, unsure, due, flips, lost

Mails == INSTANCE Notices WITH marked <- noted, faults <- lost, MaxFaults <- MaxLost

mailVars == <<since, noted, lapsed, worth, turn, mails, asked, unsure, due, flips, lost>>
sweepsVars == <<service, vars, mailVars>>

\* Between two rounds, every invoice reminded of.
AtRest ==
    /\ conn = {} /\ holder = NoOne /\ holds = 0 /\ stopping = {} /\ faults = 0
    /\ pc = [p \in Processes |-> "idle"] /\ todo = [p \in Processes |-> {}]
    /\ mine = [p \in Processes |-> CHOOSE i \in Invoices : TRUE]
    /\ marked = Invoices /\ sent = [i \in Invoices |-> 1]

SweepsInit ==
    /\ Mails!NoticesInit
    /\ \/ service = "lock" /\ Init
       \/ service = "mails" /\ AtRest

SweepsNext ==
    \/ service = "lock" /\ Next /\ UNCHANGED <<service, mailVars>>
    \/ service = "mails" /\ Mails!NoticesNext /\ UNCHANGED <<service, vars>>

\* FairSpec of the one where it is exercised; the other's holds by itself, for
\* of a row that nobody asked for nothing is enabled.
SweepsFair ==
    /\ \A p \in Processes :
         WF_vars(service = "lock" /\ Round(p)) /\ WF_vars(service = "lock" /\ Close(p))
    /\ Mails!NoticesFair

SweepsSpec == SweepsInit /\ [][SweepsNext]_sweepsVars /\ SweepsFair

\* Who waits is mailed in the end (Notices).
WaitersTold == Mails!WaitersTold
=============================================================================
