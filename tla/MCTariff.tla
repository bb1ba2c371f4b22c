------------------------------ MODULE MCTariff ------------------------------
(* Two price bands, the second one dearer, and two rows of rates.          *)
EXTENDS Tariff, TLC
MCBreaks == 0 :> 2 @@ 1 :> 4
MCRates  == {0 :> 1 @@ 1 :> 2, 0 :> 2 @@ 1 :> 3}
=============================================================================
