----------------------------- MODULE HooksProofs ------------------------------
(***************************************************************************)
(* Proofs about Hooks, for any number of packets, interfaces and files.    *)
(* The argument: the structure is registered only while the module is in;  *)
(* whatever the kernel does with the module began under the registration,  *)
(* and from the end of the registration on the exit function waits for it. *)
(***************************************************************************)
EXTENDS Hooks, TLAPS

\* What every step keeps.
IInv == HooksInv /\ OnlyNetFUnregistered

\* The start: none of the three modules is loaded.
LEMMA IInvInit == Init => IInv
<1> SUFFICES ASSUME Init PROVE IInv
    OBVIOUS
<1>1. "rest" \in Doings
      BY DEF Init, Doings
<1>2. TypeOK
      BY <1>1 DEF Init, TypeOK
<1>3. Registered /\ Tied /\ OnlyNetFUnregistered
      BY DEF Init, Registered, Tied, OnlyNetFUnregistered
<1> QED BY <1>2, <1>3 DEF IInv, HooksInv

\* What may become of a unit.
Allowed(u, x) ==
  /\ x \in Doings
  /\ x = "filter" => parham = Filled /\ (reg \/ mod = "exit")
  /\ x \in {"probe", "bound", "disconnect"} => u \in Keyboards /\ (reg \/ mod = "exit")
  /\ x \in {"open", "call"} => reg

\* A step of the kernel with one unit keeps the invariant.
LEMMA UnitStep ==
  ASSUME IInv, NEW u \in Units, NEW x, Allowed(u, x), Uses(u, x),
         UNCHANGED <<driver, mod, reg, parham>>
  PROVE  IInv'
<1>1. Doings' = Doings
      BY DEF Doings
<1>2. use \in [Units -> Doings] /\ use' \in [Units -> Doings]
      BY DEF IInv, HooksInv, TypeOK, Allowed, Uses
<1>3. use'[u] = x /\ \A v \in Units \ {u} : use'[v] = use[v]
      BY <1>2 DEF Uses
<1>4. TypeOK'
      BY <1>1, <1>2, <1>3 DEF IInv, HooksInv, TypeOK, Allowed
<1>5. Registered' /\ OnlyNetFUnregistered'
      BY DEF IInv, HooksInv, Registered, OnlyNetFUnregistered
<1>6. Tied'
      BY <1>3 DEF IInv, HooksInv, Tied, Allowed
<1> QED BY <1>4, <1>5, <1>6 DEF IInv, HooksInv

\* Every step of the kernel with a unit is one that is allowed.
LEMMA UnitsAllowed ==
  ASSUME IInv, NEW u \in Units,
         \/ Packet(u) \/ Plug(u) \/ Unplug(u) \/ Probe(u) \/ Finish(u)
         \/ Open(u) \/ Call(u) \/ Return(u) \/ Close(u)
  PROVE  IInv'
<1> USE DEF Is
<1>0. use[u] \in Doings /\ TypeOK /\ Registered /\ Tied
      BY DEF IInv, HooksInv, TypeOK
<1>1. CASE driver = "NetF"
  <2>1. Doings = {"rest", "filter"}
        BY <1>1 DEF Doings
  <2>2. CASE Packet(u)
    <3>1. Allowed(u, "filter")
          BY <1>0, <1>1, <2>1, <2>2 DEF Packet, Allowed, Registered
    <3> QED BY <2>2, <3>1, UnitStep DEF Packet
  <2>3. CASE filter(u)
    <3>1. Allowed(u, "rest")
          BY <2>1 DEF Allowed
    <3> QED BY <2>3, <3>1, UnitStep DEF filter
  <2> QED BY <1>1, <2>2, <2>3
          DEF Plug, Unplug, Probe, Finish, hello_probe, Unbind, hello_disconnect,
              Open, Call, Return, Close
<1>2. CASE driver = "Task05"
  <2>1. Doings = {"rest", "plugged", "probe", "bound", "disconnect"}
        BY <1>2 DEF Doings
  <2>2. Allowed(u, "rest") /\ Allowed(u, "plugged")
        BY <2>1 DEF Allowed
  <2>3. CASE Plug(u)
        BY <2>2, <2>3, UnitStep DEF Plug
  <2>4. CASE Unplug(u)
    <3>1. use[u] = "bound" => Allowed(u, "disconnect")
          BY <1>0, <2>1 DEF Allowed, TypeOK, Tied
    <3>2. CASE use[u] = "bound"
          BY <2>4, <3>1, <3>2, UnitStep DEF Unplug
    <3>3. CASE use[u] # "bound"
          BY <2>2, <2>4, <3>3, UnitStep DEF Unplug
    <3> QED BY <3>2, <3>3
  <2>5. CASE Probe(u)
    <3>1. Allowed(u, "probe")
          BY <2>1, <2>5 DEF Probe, Allowed, hello_id_table
    <3> QED BY <2>5, <3>1, UnitStep DEF Probe
  <2>6. CASE hello_probe(u)
    <3>1. Allowed(u, "bound")
          BY <1>0, <2>1, <2>6 DEF hello_probe, Allowed, TypeOK, Tied
    <3> QED BY <2>6, <3>1, UnitStep DEF hello_probe
  <2>7. CASE Unbind(u)
    <3>1. Allowed(u, "disconnect")
          BY <1>0, <2>1, <2>7 DEF Unbind, Allowed, TypeOK, Tied
    <3> QED BY <2>7, <3>1, UnitStep DEF Unbind
  <2>8. CASE hello_disconnect(u)
    <3>1. CASE reg
          BY <2>2, <2>8, <3>1, UnitStep DEF hello_disconnect
    <3>2. CASE ~reg
          BY <2>2, <2>8, <3>2, UnitStep DEF hello_disconnect
    <3> QED BY <3>1, <3>2
  <2> QED BY <1>2, <2>3, <2>4, <2>5, <2>6, <2>7, <2>8
          DEF Finish, filter, Packet, Open, Call, Return, Close
<1>3. CASE driver = "Task06"
  <2>1. Doings = {"rest", "open", "call"}
        BY <1>3 DEF Doings
  <2>2. reg => Allowed(u, "rest") /\ Allowed(u, "open") /\ Allowed(u, "call")
        BY <2>1 DEF Allowed
  <2>3. Open(u) \/ Call(u) \/ Return(u) \/ Close(u) => reg
        BY <1>0 DEF Open, Call, Return, Close, Tied
  <2>4. CASE Open(u)
        BY <2>2, <2>3, <2>4, UnitStep DEF Open
  <2>5. CASE Call(u)
        BY <2>2, <2>3, <2>5, UnitStep DEF Call
  <2>6. CASE Return(u)
        BY <2>2, <2>3, <2>6, UnitStep DEF Return
  <2>7. CASE Close(u)
        BY <2>2, <2>3, <2>7, UnitStep DEF Close
  <2> QED BY <1>3, <2>4, <2>5, <2>6, <2>7
          DEF Packet, Plug, Unplug, Probe, Finish, filter, hello_probe, Unbind,
              hello_disconnect
<1> QED BY <1>0, <1>1, <1>2, <1>3 DEF TypeOK

\* Every load, every unload and every step of the kernel keeps the invariant.
LEMMA IInvStep == IInv /\ [Next]_vars => IInv'
<1> SUFFICES ASSUME IInv, [Next]_vars PROVE IInv'
    OBVIOUS
<1> USE DEF IInv, HooksInv, Is
<1>1. ASSUME UNCHANGED <<driver, use>>, mod' \in {"out", "init", "in", "exit", "dead"},
             reg' \in BOOLEAN, parham' \in {Zero, Filled}
      PROVE  TypeOK'
  <2>1. Doings' = Doings
        BY <1>1 DEF Doings
  <2> QED BY <1>1, <2>1 DEF TypeOK
<1>2. CASE NetF_init
      BY <1>1, <1>2 DEF NetF_init, TypeOK, Registered, Tied,
         OnlyNetFUnregistered
<1>3. CASE NetF_register
      BY <1>1, <1>3 DEF NetF_register, TypeOK, Registered, Tied,
         OnlyNetFUnregistered
<1>4. CASE hello_init
      BY <1>1, <1>4 DEF hello_init, TypeOK, Registered, Tied,
         OnlyNetFUnregistered
<1>5. CASE misc_init_module
      BY <1>1, <1>5 DEF misc_init_module, TypeOK, Registered, Tied,
         OnlyNetFUnregistered
<1>6. CASE NetF_exit
  <2>1. \A u \in Units : use[u] \in {"rest", "filter"}
        BY <1>6 DEF NetF_exit, TypeOK, Doings
  <2> QED BY <1>1, <1>6, <2>1 DEF NetF_exit, TypeOK, Registered, Tied,
         OnlyNetFUnregistered
<1>7. CASE hello_exit
  <2>1. \A u \in Units : use[u] \notin {"open", "call"}
        BY <1>7 DEF hello_exit, TypeOK, Doings
  <2> QED BY <1>1, <1>7, <2>1 DEF hello_exit, TypeOK, Registered, Tied,
         OnlyNetFUnregistered
<1>8. CASE misc_cleanup_module
      BY <1>1, <1>8 DEF misc_cleanup_module, TypeOK, Registered, Tied,
         OnlyNetFUnregistered
<1>9. CASE Gone
      BY <1>1, <1>9 DEF Gone, Waited, TypeOK, Registered, Tied,
         OnlyNetFUnregistered
<1>10. ASSUME NEW u \in Units,
              \/ Packet(u) \/ Plug(u) \/ Unplug(u) \/ Probe(u) \/ Finish(u)
              \/ Open(u) \/ Call(u) \/ Return(u) \/ Close(u)
       PROVE  IInv'
       BY <1>10, UnitsAllowed
<1>11. CASE UNCHANGED vars
       BY <1>1, <1>11 DEF vars, TypeOK, Registered, Tied,
         OnlyNetFUnregistered
<1> QED BY <1>2, <1>3, <1>4, <1>5, <1>6, <1>7, <1>8, <1>9, <1>10, <1>11 DEF Next

\* The inductive invariant holds throughout.
LEMMA IInvHolds == Spec => []IInv
  BY IInvInit, IInvStep, PTL DEF Spec

(***************************************************************************)
(* A structure is registered only while its module is in; netF is filled   *)
(* in from NetF_init on; a filter or a driver callback runs under the      *)
(* registration or while the exit function waits for it, and a misc file   *)
(* is open only under the registration.                                    *)
(***************************************************************************)
THEOREM HooksInvHolds == Spec => []HooksInv
<1>1. IInv => HooksInv
      BY DEF IInv
<1> QED BY <1>1, IInvHolds, PTL

(***************************************************************************)
(* nf_unregister_hook, usb_deregister and the reference count of the misc  *)
(* device are enough: no callback and no open file outlives its module.    *)
(***************************************************************************)
THEOREM GoneUnusedHolds == Spec => []GoneUnused
<1>1. IInv => GoneUnused
  <2> SUFFICES ASSUME IInv, mod = "out" PROVE GoneUnused
      BY DEF GoneUnused
  <2>1. ~reg
        BY DEF IInv, HooksInv, Registered
  <2>2. ASSUME NEW u \in Units PROVE use[u] \in {"rest", "plugged"}
    <3>1. use[u] \notin {"filter", "probe", "bound", "disconnect", "open", "call"}
          BY <2>1 DEF IInv, HooksInv, Tied
    <3>2. use[u] \in Doings /\ driver \in {"NetF", "Task05", "Task06"}
          BY DEF IInv, HooksInv, TypeOK
    <3> QED BY <3>1, <3>2 DEF Doings
  <2> QED BY <2>1, <2>2 DEF GoneUnused
<1> QED BY <1>1, IInvHolds, PTL

(***************************************************************************)
(* NetF_init fills in the structure before it registers the hook, and      *)
(* nothing empties it under a filter that still runs.                      *)
(***************************************************************************)
THEOREM FilterReadyHolds == Spec => []FilterReady
<1>1. IInv => FilterReady
      BY DEF IInv, HooksInv, Tied, FilterReady, Filled, HasOut
<1> QED BY <1>1, IInvHolds, PTL

(***************************************************************************)
(* Task05 and Task06 return the result of their registration from init, so *)
(* that NetF is the only module that can be in without being registered.   *)
(***************************************************************************)
THEOREM OnlyNetFUnregisteredHolds == Spec => []OnlyNetFUnregistered
<1>1. IInv => OnlyNetFUnregistered
      BY DEF IInv
<1> QED BY <1>1, IInvHolds, PTL
=============================================================================
