----------------------------- MODULE MCSources -----------------------------
\* Every kind of source, one of them collecting: the sources share no state, so
\* what holds of each alone holds of all of them together (CollectAll).
EXTENDS AWSVerify, Adapters, Kubernetes, Domains

VARIABLE running    \* which kind of source collects

AllPrograms ==
    [github |-> GitHub, gitlab |-> GitLab, cloudflare |-> Cloudflare,
     cloudflareSkipsTokens |-> CloudflareSkipsTokens, apple |-> Apple,
     okta |-> Okta, gcp |-> GCP, azure |-> Azure, aws |-> AWS, vault |-> Vault,
     harbor |-> Harbor, jfrog |-> JFrog, digitalocean |-> DigitalOcean,
     hetzner |-> Hetzner, scaleway |-> Scaleway, fastly |-> Fastly,
     registrar |-> Registrars, namecheap |-> Namecheap, rotation |-> Rotation,
     federation |-> Federation]

TwoKeys == {[ns |-> "a", name |-> "s"], [ns |-> "b", name |-> "s"]}

\* Certificates and trust anchors share no state but the row order: configurations
\* that read certificates, and configurations that read trust anchors.
SmallClusters ==
    [namespaces : {<<>>, <<"a", "b">>}, skipSecrets : BOOLEAN, certManager : BOOLEAN,
     trust : {FALSE}, signing : {FALSE}]
    \cup [namespaces : {<<>>}, skipSecrets : {TRUE}, certManager : {FALSE},
          trust : {TRUE}, signing : BOOLEAN]

ThreeDomains == <<"d1", "d2", "d3">>

UnitsIdle == Init /\ conf = CHOOSE c \in Configurations : c.skip = {} /\ ~c.policy
KIdle     == KInit /\ kconf = CHOOSE k \in Clusters : TRUE
DIdle     == DInit /\ tldOf = [n \in DOMAIN Configured |-> "none"]

MCInit ==
    \/ running = "units" /\ Init /\ KIdle /\ DIdle
    \/ running = "k8s" /\ KInit /\ UnitsIdle /\ DIdle
    \/ running = "domains" /\ DInit /\ UnitsIdle /\ KIdle

MCNext ==
    /\ UNCHANGED running
    /\ \/ running = "units" /\ Next /\ UNCHANGED <<kvars, dvars>>
       \/ running = "k8s" /\ KNext /\ UNCHANGED <<vars, dvars>>
       \/ running = "domains" /\ DNext /\ UNCHANGED <<vars, kvars>>

MCSpec == MCInit /\ [][MCNext]_<<vars, kvars, dvars, running>>
=============================================================================
