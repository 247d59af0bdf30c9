----------------------------- MODULE MCNotifier -----------------------------
(* Scenes of Notifier: the events of c1, which has grants of its own, and  *)
(* those of c2, which comes under OTHERS, without a call; then calls of    *)
(* each sort among fewer events.                                           *)
EXTENDS Notifier, MCRegistry

About(author, target) ==
  {e \in AllEvents : e.pubkey = author
                       \/ (e.kind = GRANT_KIND /\ e.d.controller = target)}

Call(caller, within) == [type |-> "paid", caller |-> caller, within |-> within]

Few ==
  { Grant(c1, 1, Tells({"paid", "channel"})), Grant(c1, 3, Unparseable),
    Grant(OTHERS, 1, Tells({OTHERS})),
    Wants(c1, 1, {"paid", "channel"}), Wants(c2, 1, {"paid"}), Wants(c2, 2, {"channel"}) }

MCScenes ==
  {[events |-> About(c1, c1), calls |-> {}], [events |-> About(c2, OTHERS), calls |-> {}]}
    \cup {[events |-> Few, calls |-> {Call(caller, within)}] :
            caller \in {c1, None}, within \in BOOLEAN}
=============================================================================
