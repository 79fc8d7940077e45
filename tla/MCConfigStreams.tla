-------------------------- MODULE MCConfigStreams --------------------------
(* Small instances of ConfigStreams for TLC, and what comments of the      *)
(* repository say that the code does not do.                               *)
EXTENDS ConfigStreams

(* unary_call_tag.hpp: when a request is finished, the callback puts up    *)
(* another tag of its kind.  A Finish that fails deletes the tag without.  *)
GetIsServed ==
  service = "serving" => \E t \in Tags : tag[t].kind = "get"

(* unary_call_tag.hpp: the handler's lifetime must cover the tag.  Here:   *)
(* no event waits for the poller with which a unary tag will call the      *)
(* handler (to run the request, or to respawn) that Stop has destroyed.    *)
HandlerOutlivesTags ==
  HandlerDestroyed =>
    \A e \in cq : ~(e.ok /\ tag[e.tag].kind = "get")

(* config.proto: since_version 0 asks for the latest configuration.  A     *)
(* subscriber that was sent the placeholder of a missing row, which has    *)
(* version 1, is never sent the first row, which has version 1 too.        *)
LatestReachesSubscriber ==
  \A t \in Tags, v \in 1..MaxVersion :
    (Streaming(t) /\ client[t].asked = 0 /\ row = v)
      ~> (client[t].got = v \/ row # v \/ Interrupted(t))
=============================================================================
