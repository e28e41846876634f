------------------------------- MODULE LBaaSSpec ------------------------------
(***************************************************************************)
(* LBaaSSpecHandler (controller/handlers/lbaas.py): on an event of a       *)
(* service it writes the LBaaSServiceSpec generated from it on the         *)
(* endpoints, for LoadBalancerHandler, and then on the service, to know it *)
(* has done so.  Every request to the API is a step.                       *)
(***************************************************************************)
EXTENDS ServiceObjects

VARIABLES specPc,     \* where the handler is
          service,    \* the service of the event it handles
          specLapsed  \* why it has dropped events before their end

specVars == <<specPc, service, specLapsed>>

SpecTypes == /\ specPc \in {"idle", "endpoints", "service"}
             /\ service \in Services
             /\ specPc = "idle" <=> service = NoService
             /\ specLapsed \subseteq {"timeout", "conflict", "failure"}

SpecInit == specPc = "idle" /\ service = NoService /\ specLapsed = {}

SpecIdle == specPc' = "idle" /\ service' = NoService

\* The annotation is missing, or its ports are not those of the service.
HasSpecChanges(s) == s.spec # s.ports

TakeService(k) ==
    /\ specPc = "idle"
    /\ svcInbox' = SubSeq(svcInbox, k + 1, Len(svcInbox))
    /\ IF HasSpecChanges(svcInbox[k])
       THEN /\ specPc' = "endpoints" /\ service' = svcInbox[k]
            /\ svcNewer' = (k < Len(svcInbox))
       ELSE SpecIdle /\ svcNewer' = TRUE
    /\ UNCHANGED <<svc, specLapsed>>

-----------------------------------------------------------------------------
(* _set_lbaas_spec.                                                         *)

\* The endpoints are annotated without a resourceVersion.
AnnotateEndpoints ==
    /\ specPc = "endpoints" /\ ep.exists
    /\ IF ep.spec = service.ports
       THEN UNCHANGED epVars
       ELSE StoreEndpoints([ep EXCEPT !.spec = service.ports])
    /\ specPc' = "service"
    /\ UNCHANGED <<service, specLapsed>>

\* ResourceNotReady: Retry repeats all of it until its time is up.
SpecGivesUp ==
    /\ specPc = "endpoints" /\ ~ep.exists
    /\ SpecIdle /\ specLapsed' = specLapsed \cup {"timeout"}
    /\ UNCHANGED epVars

AnnotateService ==
    /\ specPc = "service" /\ ServiceExists /\ ~svcNewer
    /\ StoreService([svc EXCEPT !.spec = service.ports])
    /\ SpecIdle
    /\ UNCHANGED specLapsed

\* 409, and the service has no annotation or this one: PATCH again.
RetryService ==
    /\ specPc = "service" /\ ServiceExists /\ svcNewer
    /\ svc.spec \in {{}, service.ports}
    /\ svcNewer' = FALSE
    /\ UNCHANGED <<svc, svcInbox, specVars>>

\* 404, or 409 and another annotation: K8sClientException.
ServiceDiffers ==
    /\ specPc = "service" /\ svcNewer
    /\ ~ServiceExists \/ svc.spec \notin {{}, service.ports}
    /\ SpecIdle /\ specLapsed' = specLapsed \cup {"conflict"}
    /\ UNCHANGED svcVars

\* A request fails in another way, perhaps after it took effect.
SpecFails ==
    /\ specPc # "idle"
    /\ SpecIdle /\ specLapsed' = specLapsed \cup {"failure"}
    /\ \/ UNCHANGED <<svcVars, epVars>>
       \/ /\ specPc = "endpoints" /\ ep.exists /\ ep.spec # service.ports
          /\ StoreEndpoints([ep EXCEPT !.spec = service.ports])
          /\ UNCHANGED svcVars
       \/ /\ specPc = "service" /\ ServiceExists /\ ~svcNewer
          /\ StoreService([svc EXCEPT !.spec = service.ports])
          /\ UNCHANGED epVars

-----------------------------------------------------------------------------
SpecHandler ==
    \/ /\ \/ \E k \in 1..Len(svcInbox) : TakeService(k)
          \/ AnnotateService \/ RetryService \/ ServiceDiffers
       /\ UNCHANGED epVars
    \/ /\ AnnotateEndpoints \/ SpecGivesUp
       /\ UNCHANGED svcVars
=============================================================================
