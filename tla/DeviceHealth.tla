----------------------------- MODULE DeviceHealth -----------------------------
(***************************************************************************)
(* What ListAndWatch promises the kubelet (pkg/plugin/device_plugin.go):   *)
(* devices are offered on the word of the last look at the proxy, and only *)
(* while somebody keeps looking.  Nothing here knows of processes,         *)
(* sockets, slots or restarts.                                             *)
(***************************************************************************)
VARIABLES
  serving,     \* the proxy answers
  watch,       \* "none", "idle", or what the look under way has found
  offered      \* the kubelet takes the devices for healthy

healthVars == <<serving, watch, offered>>

Init == ~ serving /\ watch = "none" /\ ~ offered

(* The proxy comes and goes as it likes. *)
Change ==
  /\ serving' = ~ serving
  /\ UNCHANGED <<watch, offered>>

Open ==
  /\ watch = "none"
  /\ watch' = "idle"
  /\ UNCHANGED <<serving, offered>>

Look ==
  /\ watch = "idle"
  /\ watch' = IF serving THEN "up" ELSE "down"
  /\ UNCHANGED <<serving, offered>>

Tell ==
  /\ watch \in {"up", "down"}
  /\ watch' = "idle"
  /\ offered' = (watch = "up")
  /\ UNCHANGED serving

(* Nobody looks any more; what was found is forgotten, the offer withdrawn.*)
Break ==
  /\ watch # "none"
  /\ watch' = "none"
  /\ offered' = FALSE
  /\ UNCHANGED serving

Next == Change \/ Open \/ Look \/ Tell \/ Break

Spec == Init /\ [][Next]_healthVars
=============================================================================
