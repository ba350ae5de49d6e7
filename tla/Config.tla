-------------------------------- MODULE Config --------------------------------
(***************************************************************************)
(* The configuration of a process: BuybackConfig and what Validate lets    *)
(* through (internal/config/config.go), regimes and ranges                 *)
(* (pkg/types/types.go).  Decimals are integers: budgets and sizes in      *)
(* dollars, multipliers in hundredths, the discount in percent, the        *)
(* scaling factor in tenths.                                               *)
(***************************************************************************)
EXTENDS Integers

Regime == {"accumulation", "distribution", "markdown", "markup"}

(* Of the names, addresses and ids it only matters whether all are there.  *)
(* The map of ranges may lack a regime.                                    *)
IsConfig(c) ==
    /\ c.named \in BOOLEAN
    /\ {c.annualBudget, c.baseDiscount, c.volScalingFactor,
        c.maxSlippage, c.splitCount, c.minExecutionSize} \subseteq Int
    /\ DOMAIN c.multipliers \subseteq Regime
    /\ \A r \in DOMAIN c.multipliers :
          c.multipliers[r].min \in Int /\ c.multipliers[r].max \in Int

(* Mutant of Validate: the discount is only checked against 1.             *)
ValidateUpperOnly(c) ==
    /\ c.named
    /\ c.annualBudget > 0
    /\ Regime \subseteq DOMAIN c.multipliers
    /\ c.baseDiscount <= 100
    /\ c.maxSlippage > 0
    /\ c.splitCount >= 1

(* Neither the sign of the scaling factor, nor that of a range or of the   *)
(* minimum size, nor the order of a range's ends is looked at.             *)
Validate(c) ==
    /\ c.named
    /\ c.annualBudget > 0
    /\ Regime \subseteq DOMAIN c.multipliers
    /\ c.baseDiscount \in 0 .. 100
    /\ c.maxSlippage > 0
    /\ c.splitCount >= 1

(* Range.Mid, times two.                                                   *)
TwiceMid(c, regime) == c.multipliers[regime].min + c.multipliers[regime].max

(* Config.Load: nothing runs on a file that is not valid.                  *)
Load(files) == {c \in files : Validate(c)}
=============================================================================
