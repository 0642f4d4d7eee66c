------------------------------ MODULE Adapters ------------------------------
(***************************************************************************)
(* How each provider source reads its provider, as the data that           *)
(* SourceUnits runs: the units in order, the lists each unit asks for, the *)
(* page loop behind each list, and what the call site does with an error.  *)
(* An error is kept ("keep": the entries are used and the error reported), *)
(* skips the entries ("skip"), fails the unit ("fail"), ends the unit with *)
(* what it has ("return") or is dropped ("silent").                        *)
(***************************************************************************)
EXTENDS Sequences

\* A page loop: how it knows there is more, whether it is capped, whether it
\* returns what it had when a page fails, and whether the link to the next page
\* is checked before or after the page is used.
Loop(stop, capped, keeps, badNext) ==
    [stop |-> stop, capped |-> capped, keeps |-> keeps, badNext |-> badNext,
     tells |-> "loop"]

\* One request for a list; `tells`: what the code compares to learn that the
\* reply is not all there is ("nothing": it cannot know).
Single(tells) == [Loop("single", FALSE, FALSE, "none") EXCEPT !.tells = tells]

\* One request whose reply is all there is: an object, a document.
Whole == Loop("whole", FALSE, FALSE, "none")

\* A list, the rule that gives its entries a deadline, and the error policy.
List(name, get, by, policy) ==
    [name |-> name, get |-> get, by |-> by, onErr |-> policy, onCut |-> policy,
     kids |-> <<>>, eager |-> FALSE, last |-> FALSE, wants |-> FALSE]

\* A list whose entries are asked for lists of their own.
Tree(list, kids) == [list EXCEPT !.kids = kids]

\* A unit reads lists once, and lists for each configured parent.
Unit(name, once, each) ==
    [name |-> name, once |-> once, each |-> each, alone |-> FALSE, scope |-> "none"]

Source(units) ==
    [units |-> units, listed |-> FALSE, parents |-> FALSE, required |-> FALSE,
     flags |-> TRUE, policy |-> FALSE, scopes |-> {}, early |-> FALSE]

\* Sources without units, and sources with one unit per configured provider.
Plain(unit) == [Source(<<unit>>) EXCEPT !.flags = FALSE]
Listed(units) == [Source(units) EXCEPT !.listed = TRUE]

OneList(name, list) == Unit(name, <<list>>, <<>>)

-----------------------------------------------------------------------------
(* github.go *)

GhGet == Loop("short", TRUE, TRUE, "none")

GhOrgTokens == Unit("org-tokens", <<>>, <<List("org tokens", GhGet, "issuer", "skip")>>)

GhGPGKeys == OneList("gpg-keys", List("gpg keys", GhGet, "issuer", "fail"))

GitHub == [Source(<<GhOrgTokens, GhGPGKeys>>) EXCEPT !.parents = TRUE]

(* gitlab.go *)

GlGet == Loop("next", TRUE, TRUE, "none")

GlPersonal == OneList("personal", List("personal tokens", GlGet, "issuer", "fail"))

GlProjects ==
    Unit("projects", <<>>, <<List("access tokens", GlGet, "issuer", "keep"),
                             List("deploy tokens", GlGet, "issuer", "keep"),
                             List("pages domains", GlGet, "issuer", "keep")>>)

GlGroups == Unit("groups", <<>>, <<List("group tokens", GlGet, "issuer", "skip")>>)

GitLab == [Source(<<GlPersonal, GlProjects, GlGroups>>) EXCEPT !.parents = TRUE]

(* cloudflare.go, cloudflare_api.go *)

CfGet == Loop("next", TRUE, TRUE, "none")

CfZoneCertificates ==
    <<List("certificate packs", CfGet, "issuer", "keep"),
      List("custom certificates", CfGet, "issuer", "keep"),
      List("client certificates", CfGet, "issuer", "keep")>>

\* Every zone of the token, or the configured ones looked up by id; the
\* certificates are read when all zones are known.
CfZoneList(name, policy, wanted) ==
    [Tree(List(name, CfGet, "all", policy), CfZoneCertificates) EXCEPT
        !.last = TRUE, !.wants = wanted]

CfZones == [Unit("zones", <<CfZoneList("zones", "keep", FALSE)>>,
                          <<CfZoneList("zone by id", "skip", TRUE)>>)
            EXCEPT !.alone = TRUE]

CfAccountLists ==
    <<List("registrar", CfGet, "issuer", "keep"),
      List("access service tokens", CfGet, "issuer", "keep")>>
CfAccountTokens == List("account tokens", CfGet, "fallback", "skip")

CfAccount == Unit("account", Append(CfAccountLists, CfAccountTokens), <<>>)

CfUser == OneList("user", List("user tokens", CfGet, "fallback", "fail"))

Cloudflare == [Source(<<CfZones, CfAccount, CfUser>>)
               EXCEPT !.parents = TRUE, !.policy = TRUE]

\* SkipAccountTokens, the one flag for a list and not a unit.
CloudflareSkipsTokens ==
    [Cloudflare EXCEPT !.units = <<CfZones, Unit("account", CfAccountLists, <<>>), CfUser>>]

(* apple.go *)

ApplePages == Loop("link", TRUE, TRUE, "after")

AppleCertificates ==
    OneList("certificates", List("certificates", ApplePages, "issuer", "keep"))

AppleProfiles == OneList("profiles", List("profiles", ApplePages, "issuer", "keep"))

Apple == Source(<<AppleCertificates, AppleProfiles>>)

(* okta.go *)

OktaGet == Loop("link", TRUE, TRUE, "after")

OktaTokens == OneList("api-tokens", List("api tokens", OktaGet, "issuer", "fail"))

\* Only SAML applications are asked for their keys.
OktaApps ==
    Unit("apps", <<Tree(List("apps", OktaGet, "some", "fail"),
                        <<List("app keys", OktaGet, "issuer", "skip")>>)>>, <<>>)

Okta == Source(<<OktaTokens, OktaApps>>)

(* gcp.go *)

GcpList == Loop("link", TRUE, TRUE, "after")

GcpUnit(name, list) == [Unit(name, <<>>, <<list>>) EXCEPT !.scope = "gcp"]

GcpCertManager ==
    GcpUnit("certificatemanager", List("certificates", GcpList, "issuer", "keep"))

GcpCompute == GcpUnit("compute", List("ssl certificates", GcpList, "issuer", "keep"))

\* A secret may have an expiry and a rotation date, and then it is two items.
GcpSecrets == GcpUnit("secretmanager", List("secrets", GcpList, "both", "keep"))

GcpKeys ==
    GcpUnit("iam", Tree(List("service accounts", GcpList, "all", "keep"),
                        <<List("account keys", GcpList, "sooner", "skip")>>))

GCP == [Source(<<GcpCertManager, GcpCompute, GcpSecrets, GcpKeys>>) EXCEPT
            !.parents = TRUE, !.required = TRUE, !.policy = TRUE,
            !.scopes = {"gcp"}, !.early = TRUE]

(* azure.go *)

GraphPages == Loop("link", TRUE, TRUE, "after")
VaultPages == Loop("link", TRUE, TRUE, "before")

\* An application holds passwords and keys, each with a date of its own.
AzCredentials(name, list) ==
    [OneList(name, List(list, GraphPages, "both", "keep")) EXCEPT !.scope = "graph"]

AzApplications == AzCredentials("applications", "applications")
AzPrincipals   == AzCredentials("serviceprincipals", "servicePrincipals")

AzVaults ==
    [Unit("keyvault", <<>>, <<List("certificates", VaultPages, "issuer", "keep"),
                              List("secrets", VaultPages, "issuer", "keep"),
                              List("keys", VaultPages, "issuer", "keep")>>)
     EXCEPT !.scope = "vault"]

Azure == [Source(<<AzApplications, AzPrincipals, AzVaults>>) EXCEPT
              !.parents = TRUE, !.scopes = {"graph", "vault"}]

(* aws.go, awsgaps.go: the paginators of the SDK have no cap *)

Paginator == Loop("link", FALSE, TRUE, "none")

AwsAccessKeys == <<List("access keys", Paginator, "policy", "return")>>

AwsACM == OneList("acm", List("certificates", Paginator, "issuer", "return"))

\* The keys of the users of a page are read before the next page of users.
AwsIAM ==
    OneList("iam", [Tree(List("users", Paginator, "all", "return"), AwsAccessKeys)
                    EXCEPT !.eager = TRUE])

AwsSecrets == OneList("secretsmanager", List("secrets", Paginator, "issuer", "return"))

AwsRDS == Unit("rds", <<List("certificates", Paginator, "issuer", "return"),
                        List("instances", Paginator, "issuer", "return")>>, <<>>)

AwsPCA == OneList("acm-pca", List("authorities", Paginator, "issuer", "return"))

AwsIAMCerts ==
    Unit("iam-certs", <<List("server certificates", Paginator, "issuer", "keep"),
                        List("saml providers", Whole, "issuer", "keep")>>, <<>>)

AwsDomains == OneList("route53domains", List("domains", Paginator, "issuer", "return"))

AWS == Source(<<AwsACM, AwsIAM, AwsSecrets, AwsRDS, AwsPCA, AwsIAMCerts, AwsDomains>>)

(* vault.go *)

VaultToken == List("token", Whole, "issuer", "keep")

\* LIST names every certificate, the first maxCerts are read one by one.
VaultMount ==
    Tree(List("certs", Single("total"), "all", "skip"),
         <<List("cert", Whole, "issuer", "silent")>>)

Vault == [Plain(Unit("vault", <<VaultToken>>, <<VaultMount>>)) EXCEPT !.parents = TRUE]

(* registry.go *)

HarborRobots == [List("robots", Loop("short", TRUE, FALSE, "none"), "issuer", "fail")
                 EXCEPT !.onCut = "keep"]

Harbor == Plain(OneList("harbor", HarborRobots))

JFrog == Plain(OneList("jfrog", List("tokens", Single("nothing"), "issuer", "fail")))

(* digitalocean.go, hetzner.go, scaleway.go, fastly.go *)

DigitalOcean ==
    Plain(OneList("digitalocean", List("certificates", Single("total"), "issuer", "fail")))

Hetzner == Plain(OneList("hetzner", List("certificates", Single("total"), "issuer", "fail")))

ScwDomains == OneList("domains", List("domains", Single("total"), "issuer", "fail"))
ScwCertificates ==
    Unit("loadbalancers", <<>>, <<List("certificates", Single("total"), "issuer", "skip")>>)
ScwKeys == OneList("iam", List("api keys", Single("total"), "issuer", "fail"))

Scaleway == [Source(<<ScwDomains, ScwCertificates, ScwKeys>>) EXCEPT !.parents = TRUE]

FastlyCertificates ==
    OneList("certificates", List("certificates", Single("total"), "issuer", "fail"))
FastlyTokens == OneList("tokens", List("tokens", Single("nothing"), "issuer", "fail"))

Fastly == Source(<<FastlyCertificates, FastlyTokens>>)

(* registrars.go, namecheap.go *)

Dnsimple == OneList("dnsimple", List("domains", Single("total"), "issuer", "fail"))
Gandi    == OneList("gandi", List("domains", Single("full"), "issuer", "fail"))
Porkbun  == OneList("porkbun", List("domains", Single("nothing"), "issuer", "fail"))
GoDaddy  == OneList("godaddy", List("domains", Single("nothing"), "issuer", "fail"))

Registrars == Listed(<<Dnsimple, Gandi, Porkbun, GoDaddy>>)

NcDomains == OneList("domains", List("domains", Single("nothing"), "issuer", "fail"))
NcSSL     == OneList("ssl", List("ssl", Single("nothing"), "issuer", "fail"))

Namecheap == Source(<<NcDomains, NcSSL>>)

(* rotation.go *)

AnthropicKeys == OneList("anthropic", List("keys", Single("nothing"), "policy", "fail"))
OpenAIKeys    == OneList("openai", List("keys", Single("nothing"), "policy", "fail"))
DockerHubKeys == OneList("dockerhub", List("tokens", Single("nothing"), "aged", "fail"))

Rotation == Listed(<<AnthropicKeys, OpenAIKeys, DockerHubKeys>>)

(* federation.go *)

\* Metadata without a certificate and without a date is an error.
Metadata(name) ==
    OneList(name, [List("metadata", Whole, "issuer", "fail") EXCEPT !.wants = TRUE])

Federation == Listed(<<Metadata("idp"), Metadata("sp")>>)
=============================================================================
