----------------------------- MODULE Maintenance -----------------------------
(***************************************************************************)
(* What the maintenance task of an API process looks after                 *)
(* (maintenance_daemon in backend/main.py): it finalizes investigations    *)
(* that nobody works on, and destroys ephemeral resources that have        *)
(* expired.  A failure of the one does not keep it from the other, and     *)
(* they share no row: a behaviour is about one of the two.                 *)
(***************************************************************************)
EXTENDS EphemeralResources, Investigations

VARIABLE duty

maintenanceVars == <<resourceVars, investigationVars, duty>>

MaintenanceInit ==
    /\ duty \in {"resources", "investigations"}
    /\ ResourcesInit /\ InvestigationInit
    /\ duty = "investigations" => resource = NoRow

MaintenanceNext ==
    /\ UNCHANGED duty
    /\ \/ duty = "resources" /\ ResourcesNext /\ UNCHANGED investigationVars
       \/ duty = "investigations" /\ InvestigationNext /\ UNCHANGED resourceVars

MaintenanceSpec ==
    /\ MaintenanceInit /\ [][MaintenanceNext]_maintenanceVars
    /\ ResourcesFairness /\ InvestigationFairness

=============================================================================
