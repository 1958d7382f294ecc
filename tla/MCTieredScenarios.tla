------------------------- MODULE MCTieredScenarios -------------------------
(***************************************************************************)
(* The two scenarios of one run, told apart by "alone": one broker, whose  *)
(* tenants' integrations come and go, or two replicas that evict the       *)
(* messages of a tenant whose integration stays.  With one broker a        *)
(* message is sent once, so nothing depends on the duplicate window.       *)
(***************************************************************************)
EXTENDS MCTieredStorage

VARIABLE alone

Scenario ==
    IF alone
    THEN /\ evicted[b2] = {} /\ map[b2] = {} /\ s3[b2] = Tenants
         /\ {MsgId(m) : m \in due} \subseteq window
    ELSE changes = 0 /\ \A b \in Brokers : \A m \in evicted[b] : m.tenant # Global

ScenarioInit == Init /\ alone \in BOOLEAN

ScenarioNext == Next /\ UNCHANGED alone /\ Scenario'

ScenarioSpec ==
    /\ ScenarioInit
    /\ [][ScenarioNext]_<<vars, alone>>
    /\ \A b \in Brokers :
          /\ WF_vars((alone => b = b1) /\ ConsumerStep(b))
          /\ WF_vars((alone => b = b1) /\ UploaderStep(b))
=============================================================================
