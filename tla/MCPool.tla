------------------------------- MODULE MCPool -------------------------------
(* Small instances of Pool.                                                *)
EXTENDS Pool

CONSTANTS w1, w2, w3, m1, m2

MCNames == {w1, w2, w3}

Machine(ram, ctx, models) == [ram |-> ram, ctx |-> ctx, vram |-> 1, models |-> models]
MCMachines == {Machine(1, 2, {m1}), Machine(2, 1, {m1, m2}), Machine(2, 2, {})}

MCNeeds ==
  {[ram |-> 0, ctx |-> 0, vram |-> 0, model |-> NoModel],
   [ram |-> 2, ctx |-> 0, vram |-> 1, model |-> NoModel],
   [ram |-> 0, ctx |-> 2, vram |-> 0, model |-> m1],
   [ram |-> 0, ctx |-> 0, vram |-> 0, model |-> m2]}
=============================================================================
