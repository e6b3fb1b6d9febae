------------------------- MODULE MCStreamLifecycle --------------------------
(* Instances of StreamLifecycle for TLC, one of which is chosen initially.  *)
EXTENDS StreamLifecycle

CONSTANTS s1, s2, k1, k2

VARIABLE setup

\* What may happen: two streams at once, over two tokens; one stream with a
\* device_changed callback, under which the server may be stopped; a stream on one
\* of several devices.  None of it is a step the fairness asks for.
Setups ==
  { [streams |-> {s1, s2}, keys |-> {k1, k2}, watchers |-> {}, dying |-> {"server"},
     stops |-> FALSE, lists |-> 0],
    [streams |-> {s1}, keys |-> {k1}, watchers |-> {s1}, dying |-> Crashes,
     stops |-> TRUE, lists |-> 0],
    [streams |-> {s1}, keys |-> {k1}, watchers |-> {}, dying |-> {},
     stops |-> FALSE, lists |-> MaxLists] }

Within ==
  /\ \A s \in Streams \ setup.streams : upc[s] = "new"
  /\ \A k \in Keys \ setup.keys : slab[k] = Vacant
  /\ \A s \in Streams \ setup.watchers : devcb[s] = "off"
  /\ dead \subseteq setup.dying
  /\ srv = "stopping" => setup.stops
  /\ lists <= setup.lists

MCInit == Init /\ setup \in Setups

MCNext == Next /\ UNCHANGED setup /\ Within'

MCSpec == MCInit /\ [][MCNext]_<<vars, setup>> /\ Fairness

=============================================================================
