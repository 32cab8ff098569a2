------------------------------ MODULE RoutePolicy ------------------------------
(***************************************************************************)
(* The deterministic check of a route against the policy of its tenant     *)
(* (internal/llm/domain/policy.go, CheckPolicy).  A model is its form, as  *)
(* the patterns of the code tell forms apart.                              *)
(***************************************************************************)
Platforms == {"anthropic", "bedrock", "vertex", "selfhosted", "fake", "unknown"}

(* "floating" says that the name holds one of the words of an alias, like  *)
(* "latest"; a form with a date may hold a day that does not exist; geo is *)
(* the inference profile in front of the name, which only the forms of     *)
(* Bedrock and the generic one admit.                                      *)
Model ==
    {m \in [form: {"undated", "anthropic", "bedrock", "vertex", "generic", "malformed"},
            realDate: BOOLEAN, floating: BOOLEAN,
            geo: {"", "eu", "us", "apac", "global"}] :
       m.geo # "" => m.form \in {"bedrock", "generic", "malformed"}}

Route == [platform: Platforms, region: STRING, model: Model]

TenantPolicy == [route: Route, residency: {"eu", "none", "unknown"},
                 retention: {"zero", "standard", "unknown"}]

(* Too long, or out of the pattern of a region, is "malformed".            *)
ValidRegion(region) == region \notin {"", "malformed"}

RouteShape(r) ==
    \/ r.platform \in {"anthropic", "fake"} /\ r.region = ""
    \/ r.platform \in {"bedrock", "vertex"} /\ ValidRegion(r.region)
    \/ r.platform = "selfhosted" /\ (r.region = "" \/ ValidRegion(r.region))

ModelPinned(r) ==
    LET Dated(form) == r.model.form = form /\ r.model.realDate IN
    /\ ~r.model.floating
    /\ CASE r.platform = "anthropic" -> r.model.form = "undated" \/ Dated("anthropic")
         [] r.platform = "bedrock" -> Dated("bedrock")
         [] r.platform = "vertex" -> Dated("vertex")
         [] OTHER -> r.model.form # "malformed"

BedrockEURegions == {"eu-central-1", "eu-north-1", "eu-south-1", "eu-south-2",
                     "eu-west-1", "eu-west-3"}

VertexEURegions == {"eu", "europe-west1", "europe-west4"}

(* Slip: a region of the European Union is enough.                         *)
RegionInEU(r) ==
    \/ r.platform = "bedrock" /\ r.region \in BedrockEURegions
    \/ r.platform = "vertex" /\ r.region \in VertexEURegions
    \/ r.platform = "fake"

ResidentInEU(r) ==
    \/ /\ r.platform = "bedrock"
       /\ r.model.geo \in {"", "eu"}
       /\ r.region \in BedrockEURegions
    \/ r.platform = "vertex" /\ r.region \in VertexEURegions
    \/ r.platform = "fake"

(* CheckPolicy, with the capability of the provider that the check reads.  *)
PolicyHolds(p, requiresRetention) ==
    /\ p.residency # "unknown" /\ p.retention # "unknown"
    /\ RouteShape(p.route)
    /\ ModelPinned(p.route)
    /\ p.residency = "eu" => ResidentInEU(p.route)
    /\ p.retention = "zero" => ~requiresRetention
=============================================================================
