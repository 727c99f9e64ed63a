------------------------ MODULE MCPolicyTransaction ------------------------
(* TLC instance: every plan of at most MaxLen actions over the paths, in    *)
(* every order, the latency request anywhere in it.                         *)
EXTENDS PolicyTransaction, SequencesExt

CONSTANTS f, g, dev, old, new, nopath, norequest, MaxLen

MCPath == {f, g, dev}
MCValue == {old, new, norequest}

(* Files hold old or new; only the device holds norequest.                  *)
MCPlans ==
  {p \in BoundedSeq(Action, MaxLen) :
     \A k \in DOMAIN p :
       /\ p[k].path # dev => p[k].value # norequest
       /\ p[k].path = dev => p[k].value = new}

=============================================================================
