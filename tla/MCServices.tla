------------------------------ MODULE MCServices ------------------------------
(* Seven parts that share no state, one at a time: the first state chooses it. *)
EXTENDS AuthSessions, MemoryStore, SecretReferences, Onboarding, DocumentUploads, TutorGraph, TutorView

VARIABLE focus

vars == <<focus, authVars, memVars, secretVars, onboardingVars, uploadVars, graphVars, viewVars>>

Init == /\ AuthInit /\ MemInit /\ SecretInit /\ OnboardingInit /\ UploadInit /\ GraphInit
        /\ ViewInit
        /\ focus \in {"auth", "memory", "secrets", "onboarding", "uploads", "graph", "page"}
        /\ focus # "auth" => webLocks
        /\ focus # "memory" => allowed = {}
        /\ focus # "uploads" => \A u \in Uploads : upload[u].mode = "inline"
        /\ focus # "graph" => turn.limit = 2

AuthStep == /\ focus = "auth" /\ AuthNext
            /\ UNCHANGED <<focus, memVars, secretVars, onboardingVars, uploadVars, graphVars, viewVars>>
MemoryStep == /\ focus = "memory" /\ MemNext
              /\ UNCHANGED <<focus, authVars, secretVars, onboardingVars, uploadVars, graphVars, viewVars>>
SecretStep == /\ focus = "secrets" /\ SecretNext
              /\ UNCHANGED <<focus, authVars, memVars, onboardingVars, uploadVars, graphVars, viewVars>>
OnboardingStep == /\ focus = "onboarding" /\ OnboardingNext
                  /\ UNCHANGED <<focus, authVars, memVars, secretVars, uploadVars, graphVars, viewVars>>
UploadsStep == /\ focus = "uploads" /\ UploadNext
               /\ UNCHANGED <<focus, authVars, memVars, secretVars, onboardingVars, graphVars, viewVars>>
GraphStep == /\ focus = "graph" /\ GraphNext
             /\ UNCHANGED <<focus, authVars, memVars, secretVars, onboardingVars, uploadVars, viewVars>>
\* Bound: three streams, or two less when the language is changed and one less for a request
\* under way that is neither a stream nor the approvals after a decision.
Opens(n) == \A s \in Streams : s > n => stream'[s].kind = "none"
PageBound ==
    Opens(MaxStreams - 2 * page'.changes - Cardinality({c \in calls' : c.kind \notin {"restore", "restored"}}))

PageStep == /\ focus = "page" /\ ViewNext /\ PageBound
            /\ UNCHANGED <<focus, authVars, memVars, secretVars, onboardingVars, uploadVars, graphVars>>

Next == AuthStep \/ MemoryStep \/ SecretStep \/ OnboardingStep \/ UploadsStep \/ GraphStep \/ PageStep

ServicesSpec == Init /\ [][Next]_vars

\* States are told apart by the part in focus: the others stay as they are.
InFocus == CASE focus = "auth"       -> authVars
             [] focus = "memory"     -> memVars
             [] focus = "secrets"    -> secretVars
             [] focus = "onboarding" -> onboardingVars
             [] focus = "uploads"    -> uploadVars
             [] focus = "graph"      -> graphVars
             [] focus = "page"       -> viewVars
FocusView == <<focus, InFocus>>

===============================================================================
