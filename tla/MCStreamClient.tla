-------------------------- MODULE MCStreamClient --------------------------
(***************************************************************************)
(* A small instance of StreamClient for TLC: two dtypes that share a       *)
(* channel, one of which cannot decode all, and a dtype that is subscribed *)
(* and unsubscribed.                                                       *)
(***************************************************************************)
EXTENDS StreamClient, TLC

CONSTANTS a, b, f, channel, topic

MCMaxItems == (channel :> 3) @@ (topic :> 1)
MCMaxCalls == (a :> 1) @@ (b :> 1) @@ (f :> 1) @@ (channel :> 0) @@ (topic :> 1)
MCBad == (a :> {2}) @@ (b :> {}) @@ (f :> {})
MCTopicOf == (a :> channel) @@ (b :> channel) @@ (f :> topic)
=============================================================================
