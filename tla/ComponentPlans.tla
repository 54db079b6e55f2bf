---------------------------- MODULE ComponentPlans ----------------------------
(***************************************************************************)
(* The scripts of the component reconcilers: the API objects each phase    *)
(* creates and waits for, and deletes, in the order of the code.  A name   *)
(* is a pair of a word and the number of the user it is for, 0 for none;   *)
(* an object is a triple of the namespace it is in, its kind and its name. *)
(* `Cluster` stands for no namespace, and objects in namespaces the        *)
(* operator does not create itself (openshift-operators, the Workshop's    *)
(* own) are given as cluster-scoped.  A subscription makes OLM provide an  *)
(* install plan, which the operator approves; where a teardown deletes the *)
(* service version (csv) itself, that is taken to come with the plan.      *)
(***************************************************************************)
EXTENDS Naturals, Sequences

CONSTANT Users   \* spec.user.number

ASSUME PlansAssumption == Users \in Nat \ {0}

Shared(what) == <<what, 0>>
OfUser(id, what) == <<what, id>>

Cluster == Shared("cluster")
NS(n) == <<Cluster, "namespace", n>>
In(n, what) == <<n, what, n>>
InFor(n, id, what) == <<n, what, OfUser(id, "user")>>
Glob(what) == <<Cluster, what, Cluster>>
GlobOf(n, what) == <<Cluster, what, n>>

Does(op, o, more, skip) == [op |-> op, obj |-> o, brings |-> more, skip |-> skip]
Make(o) == Does("create", o, {}, 0)
MakeIfMissing(o) == Does("createIfMissing", o, {}, 0)
WaitFor(o, more) == Does("await", o, more, 0)
Request(o) == Does("ask", o, {}, 0)
RelyOn(o) == Does("insist", o, {}, 0)
Drop(o) == Does("delete", o, {}, 0)
DropIfFound(o) == Does("deleteIfFound", o, {}, 0)
LookAt(o, skip) == Does("look", o, {}, skip)
Need(o) == Does("require", o, {}, 0)

Makes(os) == [i \in 1..Len(os) |-> Make(os[i])]
Drops(os) == [i \in 1..Len(os) |-> Drop(os[i])]

(* The steps that F has for each user, `length` of them, one user after    *)
(* the other.                                                              *)
PerUser(F, length, upto) ==
  [i \in 1..length * upto |-> F[((i - 1) \div length) + 1][((i - 1) % length) + 1]]

-----------------------------------------------------------------------------
(* Portal: Redis and the username distribution.                            *)
RedisInstall ==
  Makes(<<Glob("redis secret"), Glob("redis pvc"), Glob("redis deployment"),
          Glob("redis service")>>)

DistributionInstall ==
  Makes(<<Glob("portal deployment"), Glob("portal service"), Glob("portal route")>>)

PortalInstall == RedisInstall \o DistributionInstall

(* Owner references are set where the owner is in the same namespace.      *)
OwnedByWorkshop ==
  {Glob("redis pvc"), Glob("redis deployment"), Glob("portal deployment"), Glob("portal route")}

DistributionTeardown ==
  Drops(<<Glob("portal route"), Glob("portal service")>>)
  \o <<DropIfFound(Glob("portal deployment"))>>

RedisTeardown ==
  Drops(<<Glob("redis service"), Glob("redis deployment"), Glob("redis pvc"),
          Glob("redis secret")>>)

PortalTeardown == DistributionTeardown \o RedisTeardown

-----------------------------------------------------------------------------
(* Project: a staging namespace for each user, with three role bindings.   *)
Staging(id) == OfUser(id, "staging")

ProjectInstall ==
  PerUser([id \in 1..Users |->
             Makes(<<NS(Staging(id)), In(Staging(id), "project rb"),
                     In(Staging(id), "default rb"), In(Staging(id), "argocd rb")>>)],
          4, Users)

(* deleteProject only looks whether the projects of the users below the    *)
(* last exist, and stops without an error at the first that does not; it   *)
(* deletes that of the last, and goes on to the next, who has none.        *)
StagingTeardown(id) ==
  Drops(<<In(Staging(id), "argocd rb"), In(Staging(id), "default rb"),
          In(Staging(id), "project rb"), NS(Staging(id))>>)

(* A look skips to the end: over the other looks, and two users.           *)
ProjectTeardown ==
  PerUser([id \in 1..Users - 1 |-> <<LookAt(NS(Staging(id)), (Users - 1 - id) + 8)>>],
          1, Users - 1)
  \o StagingTeardown(Users) \o StagingTeardown(Users + 1)

-----------------------------------------------------------------------------
(* Bookbag: a guide for each user, all in one namespace.                   *)
Guides == Shared("workshop-guides")

BookbagInstall ==
  PerUser([id \in 1..Users |->
             Makes(<<NS(Guides), InFor(Guides, id, "env"), InFor(Guides, id, "vars"),
                     InFor(Guides, id, "sa"), InFor(Guides, id, "rb"),
                     InFor(Guides, id, "deployment"), InFor(Guides, id, "service"),
                     InFor(Guides, id, "route")>>)],
          8, Users)

GuideTeardown(id) ==
  Drops(<<InFor(Guides, id, "route"), InFor(Guides, id, "service"),
          InFor(Guides, id, "deployment"), InFor(Guides, id, "rb"), InFor(Guides, id, "sa"),
          InFor(Guides, id, "vars"), InFor(Guides, id, "env")>>)

(* A look skips the other users and the one past the last, but not the     *)
(* namespace.                                                              *)
BookbagTeardown ==
  PerUser([id \in 1..Users |->
             GuideTeardown(id)
             \o <<LookAt(InFor(Guides, id, "deployment"), 8 * (Users - id) + 7)>>],
          8, Users)
  \o GuideTeardown(Users + 1)
  \o <<Drop(NS(Guides))>>

-----------------------------------------------------------------------------
(* Nexus and Gitea: an Ansible operator, its CRD and one custom resource.  *)
AnsibleInstall(n) ==
  Makes(<<NS(n), GlobOf(n, "crd"), In(n, "sa"), GlobOf(n, "clusterrole"),
            GlobOf(n, "crb"), In(n, "operator"), In(n, "cr")>>)
  \o <<WaitFor(In(n, "server"), {})>>

(* Mutant: the CRD is left behind.                                         *)
AnsibleTeardownNoCRD(n) ==
  Drops(<<In(n, "cr"), In(n, "operator"), GlobOf(n, "crb"), GlobOf(n, "clusterrole"),
          In(n, "sa"), NS(n)>>)

(* Mutant: the namespace goes first.                                       *)
AnsibleTeardownNamespaceFirst(n) ==
  Drops(<<NS(n), In(n, "cr"), In(n, "operator"), GlobOf(n, "crb"), GlobOf(n, "clusterrole"),
          In(n, "sa"), GlobOf(n, "crd")>>)

AnsibleTeardown(n) ==
  Drops(<<In(n, "cr"), In(n, "operator"), GlobOf(n, "crb"), GlobOf(n, "clusterrole"),
            In(n, "sa"), GlobOf(n, "crd"), NS(n)>>)

NexusInstall == AnsibleInstall(Shared("nexus"))
NexusTeardown == AnsibleTeardown(Shared("nexus"))

(* Gitea's users sign up with the server, over HTTP, at its route.         *)
GitServer == Shared("gitea")
GitUser(id) == InFor(GitServer, id, "account")
GiteaInstall ==
  AnsibleInstall(GitServer)
  \o <<WaitFor(In(GitServer, "route"), {})>>
  \o PerUser([id \in 1..Users |-> <<Request(GitUser(id))>>], 1, Users)
GiteaTeardown == AnsibleTeardown(GitServer)

-----------------------------------------------------------------------------
(* Pipelines.  The check that is to lead to the approval of the install    *)
(* plan is the wrong way round: as soon as the subscription can be read,   *)
(* the phase is done.                                                      *)
PipelinesInstall == <<Make(Glob("pipelines sub"))>>
PipelinesTeardown == <<Drop(Glob("pipelines sub"))>>

-----------------------------------------------------------------------------
(* GitOps: Argo CD, and for each user a role in the staging namespace that *)
(* the Project phase creates.                                              *)
ArgoCD == Shared("argocd")

GitOpsInstall ==
  <<Make(Glob("gitops sub")), WaitFor(Glob("gitops plan"), {Glob("gitops csv")}),
    WaitFor(Glob("gitops operator"), {}), Make(NS(ArgoCD))>>
  \o PerUser([id \in 1..Users |->
                Makes(<<InFor(ArgoCD, id, "appproject"), In(Staging(id), "argocd role"),
                        In(Staging(id), "argocd manager rb")>>)],
             3, Users)
  \o Makes(<<In(ArgoCD, "secret"), In(ArgoCD, "configmap"), In(ArgoCD, "cr")>>)
  \o <<WaitFor(In(ArgoCD, "server"), {}), Make(In(ArgoCD, "cluster secret"))>>

GitOpsTeardown ==
  Drops(<<In(ArgoCD, "cluster secret"), In(ArgoCD, "cr"), In(ArgoCD, "configmap"),
            In(ArgoCD, "secret")>>)
  \o PerUser([id \in 1..Users |->
                Drops(<<In(Staging(id), "argocd manager rb"), In(Staging(id), "argocd role"),
                        InFor(ArgoCD, id, "appproject")>>)],
             3, Users)
  \o Drops(<<Glob("gitops sub"), Glob("gitops csv"), NS(ArgoCD)>>)
  \o <<Need(NS(ArgoCD)), Need(In(ArgoCD, "cr"))>>

-----------------------------------------------------------------------------
(* CodeReady Workspaces.  Each user gets an account at Keycloak, made for  *)
(* it or, with OAuth (openshiftOAuth in the spec), by the exchange of its  *)
(* token, after which its email address is set.  Starting the workspace    *)
(* makes Che create a namespace for it; with OAuth nobody deletes those.   *)
(* All this is asked for over HTTP.  The devfile and the tokens are not    *)
(* kept, and to get one without success is the same as to be refused       *)
(* afterwards.                                                             *)
Che == Shared("workspaces")
Workspace(id) == OfUser(id, "workspace")
CheUser(id) == InFor(Che, id, "account")

Account(oauth, id) ==
  <<Request(CheUser(id))>> \o (IF oauth THEN <<RelyOn(CheUser(id))>> ELSE <<>>)
InitWorkspace(id) == <<Request(NS(Workspace(id)))>>

CodeReadyInstall(oauth) ==
  <<Make(NS(Che)), Make(In(Che, "operatorgroup")), Make(In(Che, "sub")),
    WaitFor(In(Che, "plan"), {}), WaitFor(In(Che, "operator"), {}), Make(In(Che, "che cr")),
    WaitFor(In(Che, "codeready"), {})>>
  \o (IF oauth THEN <<>> ELSE Makes(<<Glob("che clusterrole"), Glob("che crb")>>))
  \o PerUser([id \in 1..Users |-> Account(oauth, id) \o InitWorkspace(id)],
             IF oauth THEN 3 ELSE 2, Users)

CodeReadyTeardown(oauth) ==
  (IF oauth THEN <<>>
   ELSE PerUser([id \in 1..Users |-> <<Drop(NS(Workspace(id)))>>], 1, Users)
        \o Drops(<<Glob("che clusterrole"), Glob("che crb")>>))
  \o Drops(<<In(Che, "che cr"), In(Che, "sub"), In(Che, "operatorgroup"), NS(Che)>>)

-----------------------------------------------------------------------------
(* Service mesh: Elasticsearch, Jaeger, Kiali, then the mesh, whose        *)
(* operator brings two webhook configurations.                             *)
Mesh == Shared("istio-system")
Redhat == Shared("openshift-operators-redhat")

ElasticSearchInstall ==
  <<Make(NS(Redhat)), Make(In(Redhat, "es sub")), WaitFor(In(Redhat, "es plan"), {})>>

JaegerInstall ==
  <<Make(Glob("jaeger sub")), WaitFor(Glob("jaeger plan"), {Glob("jaeger csv")})>>

KialiInstall ==
  <<Make(Glob("kiali sub")), WaitFor(Glob("kiali plan"), {Glob("kiali csv")})>>

MeshInstall ==
  <<Make(Glob("mesh sub")), WaitFor(Glob("mesh plan"), {Glob("mesh csv")}),
    WaitFor(Glob("istio operator"), {Glob("mesh vwc"), Glob("mesh mwc")})>>
  \o Makes(<<NS(Mesh), In(Mesh, "jaeger role"), In(Mesh, "jaeger rb"), In(Mesh, "mesh rb"),
             In(Mesh, "smcp"), In(Mesh, "memberroll")>>)

ServiceMeshInstall == ElasticSearchInstall \o JaegerInstall \o KialiInstall \o MeshInstall

MeshTeardown ==
  Drops(<<In(Mesh, "memberroll"), In(Mesh, "smcp"), In(Mesh, "mesh rb"),
          In(Mesh, "jaeger rb"), In(Mesh, "jaeger role"), Glob("mesh sub"),
          Glob("mesh vwc"), Glob("mesh mwc")>>)

ServiceVersionsTeardown == Drops(<<Glob("mesh csv"), Glob("kiali csv"), Glob("jaeger csv")>>)

ElasticSearchTeardown == Drops(<<In(Redhat, "es sub"), NS(Redhat)>>)

(* PatchIstioProject                                                       *)
MeshPatches ==
  <<Need(NS(Mesh)), Need(In(Mesh, "smcp")), Need(In(Mesh, "kiali")),
    Need(In(Mesh, "memberroll"))>>

ServiceMeshTeardown ==
  MeshTeardown \o Drops(<<Glob("kiali sub"), Glob("jaeger sub")>>) \o ServiceVersionsTeardown
  \o <<Drop(NS(Mesh))>> \o ElasticSearchTeardown \o MeshPatches

-----------------------------------------------------------------------------
(* Serverless: the operator, and two namespaces that nothing is put into.  *)
Serverless == Shared("openshift-serverless")

ServerlessInstall ==
  Makes(<<NS(Serverless), In(Serverless, "sub"), NS(Shared("knative-serving")),
            NS(Shared("knative-eventing"))>>)

ServerlessTeardown ==
  Drops(<<NS(Shared("knative-eventing")), NS(Shared("knative-serving")), In(Serverless, "sub"),
            NS(Serverless)>>)

-----------------------------------------------------------------------------
(* Vault: server and agent injector share a namespace and the security     *)
(* context constraints "vault", which whichever of the two comes first     *)
(* creates, and deletes.                                                   *)
Vault == Shared("vault")

VaultServerInstall ==
  Makes(<<NS(Vault), In(Vault, "configmap"), In(Vault, "sa")>>)
  \o <<MakeIfMissing(Glob("vault scc"))>>
  \o Makes(<<Glob("vault crb"), In(Vault, "internal service"), In(Vault, "service"),
             In(Vault, "statefulset")>>)

AgentInjectorInstall ==
  Makes(<<NS(Vault), In(Vault, "agent sa")>>)
  \o <<MakeIfMissing(Glob("vault scc"))>>
  \o Makes(<<Glob("agent clusterrole"), Glob("agent crb"), In(Vault, "agent service"),
             In(Vault, "agent deployment"), Glob("agent webhook")>>)

VaultInstall == VaultServerInstall \o AgentInjectorInstall

VaultServerTeardown ==
  Drops(<<In(Vault, "statefulset"), In(Vault, "service"), In(Vault, "internal service"),
          Glob("vault crb")>>)
  \o <<DropIfFound(Glob("vault scc"))>>
  \o Drops(<<In(Vault, "sa"), In(Vault, "configmap")>>)

AgentInjectorTeardown ==
  Drops(<<Glob("agent webhook"), In(Vault, "agent deployment"), In(Vault, "agent service"),
          Glob("agent crb"), Glob("agent clusterrole")>>)
  \o <<DropIfFound(Glob("vault scc")), Drop(In(Vault, "agent sa"))>>

VaultTeardown == VaultServerTeardown \o AgentInjectorTeardown \o <<Drop(NS(Vault))>>

-----------------------------------------------------------------------------
(* Cert-manager.                                                           *)
CertManager == Shared("cert-manager")

CertManagerInstall ==
  <<Make(Glob("cert-manager sub")), WaitFor(Glob("cert-manager plan"), {}),
    Make(NS(CertManager)), Make(In(CertManager, "cr"))>>

CertManagerTeardown ==
  Drops(<<In(CertManager, "cr"), NS(CertManager), Glob("cert-manager sub")>>)

-----------------------------------------------------------------------------
(* All phases but User.                                                    *)
PlanNames ==
  {"Portal", "Project", "Bookbag", "Nexus", "Gitea", "Pipelines", "GitOps", "CodeReady",
   "CodeReadyOAuth", "ServiceMesh", "Serverless", "Vault", "CertManager"}

InstallPlan(p) ==
  CASE p = "Portal"     -> PortalInstall
    [] p = "Project"    -> ProjectInstall
    [] p = "Bookbag"    -> BookbagInstall
    [] p = "Nexus"      -> NexusInstall
    [] p = "Gitea"      -> GiteaInstall
    [] p = "Pipelines"  -> PipelinesInstall
    [] p = "GitOps"     -> GitOpsInstall
    [] p = "CodeReady"  -> CodeReadyInstall(FALSE)
    [] p = "CodeReadyOAuth" -> CodeReadyInstall(TRUE)
    [] p = "ServiceMesh" -> ServiceMeshInstall
    [] p = "Serverless" -> ServerlessInstall
    [] p = "Vault"      -> VaultInstall
    [] p = "CertManager" -> CertManagerInstall

TeardownPlan(p) ==
  CASE p = "Portal"     -> PortalTeardown
    [] p = "Project"    -> ProjectTeardown
    [] p = "Bookbag"    -> BookbagTeardown
    [] p = "Nexus"      -> NexusTeardown
    [] p = "Gitea"      -> GiteaTeardown
    [] p = "Pipelines"  -> PipelinesTeardown
    [] p = "GitOps"     -> GitOpsTeardown
    [] p = "CodeReady"  -> CodeReadyTeardown(FALSE)
    [] p = "CodeReadyOAuth" -> CodeReadyTeardown(TRUE)
    [] p = "ServiceMesh" -> ServiceMeshTeardown
    [] p = "Serverless" -> ServerlessTeardown
    [] p = "Vault"      -> VaultTeardown
    [] p = "CertManager" -> CertManagerTeardown

-----------------------------------------------------------------------------
(* The scripts as Rollout runs them.  Argo CD is set up in the users'      *)
(* projects, so its script follows theirs.                                 *)
InstallScript(p) ==
  IF p = "GitOps" THEN ProjectInstall \o InstallPlan(p) ELSE InstallPlan(p)

TeardownScript(p) ==
  IF p = "GitOps" THEN ProjectTeardown \o TeardownPlan(p) ELSE TeardownPlan(p)

(* The objects they are about, with the namespaces these are in.           *)
ObjectsOf(script) ==
  UNION {{script[i].obj} \cup script[i].brings : i \in 1..Len(script)}

ApiObjects(phases) ==
  LET named == UNION {ObjectsOf(InstallScript(p)) \cup ObjectsOf(TeardownScript(p)) : p \in phases}
  IN  named \cup {NS(o[1]) : o \in {q \in named : q[1] # Cluster}}

NamespacesAmong(objects) == {o \in objects : o[1] = Cluster /\ o[2] = "namespace"}

HomesOf(objects, outside) ==
  [o \in objects |-> IF o[1] = Cluster THEN outside ELSE NS(o[1])]

(* The phases that put something into every namespace they create, have    *)
(* nothing the garbage collector takes when the Workshop goes, and do not  *)
(* look before they create.                                                *)
AnchoredPhases == PlanNames \ {"Portal", "Serverless", "Vault"}

(* The phases whose teardown of a full installation runs to its end.       *)
OrderlyPhases == PlanNames \ {"Project", "Bookbag", "GitOps", "ServiceMesh", "Vault"}

(* The phases whose teardown has a step for whatever the phase creates,    *)
(* and no loop or look that may leave it out.                              *)
CoveredPhases == PlanNames \ {"Project", "GitOps", "Vault"}
=============================================================================
