----------------------------- MODULE Surroundings -----------------------------
(***************************************************************************)
(* What surrounds the queue: the webhook with the configuration, and the   *)
(* experiments (the campaign with its load generator and collectors, the   *)
(* sheets of records and the samples that tables and figures are made of,  *)
(* the template trial). These parts share no state; a behaviour is of one  *)
(* of them.                                                                *)
(***************************************************************************)
EXTENDS Admission, Campaign, Samples, TemplateTrial

AdmissionIdle == /\ crd = CHOOSE s \in Specs : TRUE
                 /\ published = Specs
                 /\ config = [r \in Pod |-> Default] /\ leading = [r \in Pod |-> FALSE]
                 /\ synced = [r \in Pod |-> FALSE] /\ cycle = Nil
                 /\ request = [r \in Pod |-> Nil] /\ stored = Nil

CampaignIdle == /\ FilesInit /\ stage = "off"
                /\ plan = <<>> /\ gen = TRUE /\ crew \in Crews /\ Serial
                /\ next = 1 /\ made = <<>> /\ failed = {} /\ exit = "ok"
                /\ job = [w \in Thread |-> 0] /\ try = [w \in Thread |-> 1]

ResultsIdle == what = "none" /\ data = <<>> /\ other = <<>>
SamplesIdle == metric = "none" /\ series = <<>>

TrialIdle == /\ there = Role /\ begun = {} /\ total = 0 /\ started = 0
             /\ shots = [i \in 1..Polls |-> NoShot]
             /\ firstSeen = [r \in Role |-> 0] /\ last = NoShot /\ files = <<>>

VARIABLE part

Init ==
  \/ /\ part = "admission"
     /\ AdmissionInit /\ CampaignIdle /\ ResultsIdle /\ SamplesIdle /\ TrialIdle
  \/ /\ part = "campaign"
     /\ AdmissionIdle /\ CampaignInit /\ ResultsIdle /\ SamplesIdle /\ TrialIdle
  \/ /\ part = "results"
     /\ AdmissionIdle /\ CampaignIdle /\ ResultsInit /\ SamplesIdle /\ TrialIdle
  \/ /\ part = "samples"
     /\ AdmissionIdle /\ CampaignIdle /\ ResultsIdle /\ SamplesInit /\ TrialIdle
  \/ /\ part = "trial"
     /\ AdmissionIdle /\ CampaignIdle /\ ResultsIdle /\ SamplesIdle /\ TrialInit

Next == /\ UNCHANGED part
        /\ \/ part = "admission" /\ AdmissionNext /\ UNCHANGED <<cvars, rvars, mvars, tvars>>
           \/ part = "campaign"  /\ CampaignNext  /\ UNCHANGED <<avars, rvars, mvars, tvars>>
           \/ part = "results"   /\ ResultsNext   /\ UNCHANGED <<avars, cvars, mvars, tvars>>
           \/ part = "samples"   /\ SamplesNext   /\ UNCHANGED <<avars, cvars, rvars, tvars>>
           \/ part = "trial"     /\ TrialNext     /\ UNCHANGED <<avars, cvars, rvars, mvars>>

Spec == Init /\ [][Next]_<<part, avars, cvars, rvars, mvars, tvars>>
        /\ (part = "admission" => AdmissionFairness)

=============================================================================
