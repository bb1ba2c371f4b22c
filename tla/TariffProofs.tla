---------------------------- MODULE TariffProofs ----------------------------
(***************************************************************************)
(* What is charged, what a restart finds and what the relay is told, for   *)
(* every table of rates and breaks, any amounts and any number of restarts.*)
(* The sum of prices is a recursive function: that it has a value is shown *)
(* with a least counterexample, as is every fact about it.                 *)
(***************************************************************************)
EXTENDS Tariff, WellFoundedInduction, TLAPS

\* Every set of natural numbers has a least one.
LEMMA LeastNumber ==
  ASSUME NEW T \in SUBSET Nat, T # {}
  PROVE  \E m \in T : \A k \in T : m <= k
<1>1. \E m \in T : \A k \in T : ~ (<<k, m>> \in OpToRel(<, Nat))
  BY NatLessThanWellFounded, WFMin, Zenon
<1>2. \A k, m \in Nat : k < m => <<k, m>> \in OpToRel(<, Nat)
  BY Zenon DEF OpToRel
<1>3. \E m \in T : \A k \in T : ~ (k < m)
  BY <1>1, <1>2, Zenon
<1>4. QED
  BY <1>3

-----------------------------------------------------------------------------
(* The price of a unit.                                                    *)

\* There is a price band for every consumption (getRateStartIndex).
LEMMA BandType == \A c \in Nat : getRateStartIndex(c) \in Bands
<1> USE TariffAssumption DEF Bands
<1> SUFFICES ASSUME NEW c \in Nat PROVE getRateStartIndex(c) \in Bands
  OBVIOUS
<1> DEFINE above == {i \in Bands : power_brakes[i] > c}
<1>1. CASE above = {}
  BY <1>1 DEF getRateStartIndex
<1>2. CASE above # {}
  <2>1. \E i \in above : \A k \in above : i <= k
    <3>1. above \in SUBSET Nat
      OBVIOUS
    <3> HIDE DEF above
    <3>2. QED
      BY <3>1, <1>2, LeastNumber
  <2>2. QED
    BY <1>2, <2>1 DEF getRateStartIndex
<1>3. QED
  BY <1>1, <1>2

\* The price of a unit is a natural number, whatever row of rates is in force.
LEMMA PriceType == rates \in Rates => \A c \in Nat : Price(c) \in Nat
BY TariffAssumption, BandType DEF Price

\* The functions that a recursive sum of a[1] to a[n] may be.
Sums(a, n) ==
  {s \in [0 .. n -> Nat] : \A i \in 0 .. n : s[i] = IF i = 0 THEN 0 ELSE s[i - 1] + a[i]}

\* There is such a function for every number of units.
LEMMA SumExists ==
  ASSUME NEW a \in [Nat -> Nat]
  PROVE  \A n \in Nat : Sums(a, n) # {}
<1> SUFFICES ASSUME NEW k \in Nat, Sums(a, k) = {} PROVE FALSE
  OBVIOUS
<1> DEFINE T == {n \in Nat : Sums(a, n) = {}}
<1>1. PICK m \in T : \A n \in T : m <= n
  <2>1. T \in SUBSET Nat /\ T # {}
    OBVIOUS
  <2> HIDE DEF T
  <2>2. QED
    BY <2>1, LeastNumber
<1>2. CASE m = 0
  <2>1. [i \in 0 .. 0 |-> 0] \in Sums(a, 0)
    BY DEF Sums
  <2>2. QED
    BY <1>2, <2>1
<1>3. CASE m # 0
  <2>1. m \in Nat /\ m - 1 \in Nat /\ m - 1 \notin T
    BY <1>1, <1>3
  <2>2. PICK s \in Sums(a, m - 1) : TRUE
    BY <2>1
  <2> DEFINE t == [i \in 0 .. m |-> IF i = m THEN s[m - 1] + a[m] ELSE s[i]]
  <2>3. /\ s \in [0 .. m - 1 -> Nat]
        /\ \A i \in 0 .. m - 1 : s[i] = IF i = 0 THEN 0 ELSE s[i - 1] + a[i]
    BY <2>2 DEF Sums
  <2>4. t \in [0 .. m -> Nat]
    BY <2>1, <2>3
  <2>5. ASSUME NEW i \in 0 .. m PROVE t[i] = IF i = 0 THEN 0 ELSE t[i - 1] + a[i]
    <3>1. CASE i = m
      BY <2>1, <2>3, <3>1, <1>3
    <3>2. CASE i # m
      <4>1. i \in 0 .. m - 1 /\ t[i] = s[i]
        BY <2>1, <3>2
      <4>2. i # 0 => i - 1 \in 0 .. m - 1 /\ i - 1 # m /\ t[i - 1] = s[i - 1]
        BY <2>1, <3>2
      <4>3. QED
        BY <4>1, <4>2, <2>3
    <3>3. QED
      BY <3>1, <3>2
  <2>6. t \in Sums(a, m)
    BY <2>4, <2>5 DEF Sums
  <2>7. QED
    BY <2>6, <1>1
<1>4. QED
  BY <1>2, <1>3

\* What CalculateTariff_New charges for n units is a natural number.
LEMMA ChargesType ==
  ASSUME rates \in Rates, ConsumptionSinceLastBilling \in Nat, NEW n \in Nat
  PROVE  Charges(n) \in Nat
<1> DEFINE c == ConsumptionSinceLastBilling
           a == [i \in Nat |-> Price(c + i)]
           F(s) == [i \in 0 .. n |-> IF i = 0 THEN 0 ELSE s[i - 1] + Price(c + i)]
           f == CHOOSE s : s = F(s)
<1>1. a \in [Nat -> Nat]
  BY PriceType
<1>2. PICK s : s \in Sums(a, n)
  BY <1>1, SumExists
<1>3. s = F(s)
  BY <1>2 DEF Sums
<1>4. f = F(f)
  <2> HIDE DEF F
  <2> QED BY <1>3
<1>5. \A i \in 0 .. n : f[i] = IF i = 0 THEN 0 ELSE f[i - 1] + Price(c + i)
  <2> HIDE DEF f
  <2> QED BY <1>4
<1>6. f[n] \in Nat
  <2> HIDE DEF f
  <2> DEFINE T == {i \in 0 .. n : f[i] \notin Nat}
  <2> SUFFICES ASSUME T # {} PROVE FALSE
    OBVIOUS
  <2>1. PICK m \in T : \A k \in T : m <= k
    <3>1. T \in SUBSET Nat
      OBVIOUS
    <3> HIDE DEF T
    <3>2. QED
      BY <3>1, LeastNumber
  <2>2. m # 0 /\ m \in 0 .. n
    BY <1>5
  <2>3. f[m - 1] \in Nat
    BY <2>1, <2>2
  <2>4. Price(c + m) \in Nat
    BY <2>2, PriceType
  <2>5. QED
    BY <1>5, <2>2, <2>3, <2>4, <2>1
<1>7. QED
  BY <1>6, Zenon DEF Charges

-----------------------------------------------------------------------------
(* Types and charges.                                                      *)

\* The bounds of ChargesBounded, and what they rest on: no reading is charged
\* twice, and the consumption of the month is part of what is charged.
ChargeInv ==
  /\ ChargesBounded
  /\ Wh * charged <= TempLastEnergyValue
  /\ ConsumptionSinceLastBilling <= charged

TypeInv == TypeOK /\ ChargeInv

\* What is charged is the whole units of a reading.
LEMMA WholeUnits ==
  ASSUME NEW n \in Int, NEW w \in Nat \ {0}, n >= w
  PROVE  /\ n \div w \in Nat /\ n \div w >= 1
         /\ w * (n \div w) <= n /\ n < w * (n \div w) + w
OBVIOUS

\* What is left of a reading is less than a unit.
LEMMA Fraction ==
  ASSUME NEW n \in Int, NEW w \in Nat \ {0}
  PROVE  n % w \in 0 .. w - 1
OBVIOUS

\* Watt-hours of units add up.
LEMMA UnitsAdd ==
  ASSUME NEW w \in Nat \ {0}, NEW m \in Nat, NEW n \in Nat
  PROVE  /\ w * (m + n) = w * m + w * n
         /\ 3 * w * m = 3 * (w * m)
         /\ w * m \in Nat /\ m <= w * m
OBVIOUS

\* At delivery nothing is charged.
LEMMA InitTypeInv == Init => TypeInv
<1> SUFFICES ASSUME Init PROVE TypeInv
  OBVIOUS
<1>1. TypeOK
  <2>1. /\ energy = 0 /\ TempLastEnergyValue = 0 /\ ConsumptionSinceLastBilling = 0
        /\ postPaid = 0 /\ boots = 0 /\ changes = 0 /\ charged = 0 /\ ever = 0
        /\ MaxEnergy \in Nat /\ Wh \in Nat \ {0} /\ MaxBoots \in Nat /\ MaxChanges \in Nat
    BY TariffAssumption DEF Init
  <2>2. balance \in Int /\ settled \in Int /\ eeprom \in Int
    BY TariffAssumption DEF Init
  <2>3. LowTariff \in BOOLEAN /\ unsaved \in BOOLEAN /\ checked \in BOOLEAN
    BY Zenon DEF Init
  <2>4. rates \in Rates /\ billingSchema \in {"pre_paid", "post_paid"} /\ pc = "loop"
    BY DEF Init
  <2>5. QED
    BY <2>1, <2>2, <2>3, <2>4 DEF TypeOK
<1>2. ChargeInv
  BY TariffAssumption DEF Init, ChargeInv, ChargesBounded
<1>3. QED
  BY <1>1, <1>2 DEF TypeInv

\* A billing charges the whole units of the net reading, and advances the
\* reading by less than three for each of them.
LEMMA BillingTypeInv == TypeInv /\ CalculateTariff_New => TypeInv'
<1> SUFFICES ASSUME TypeInv, CalculateTariff_New PROVE TypeInv'
  OBVIOUS
<1> DEFINE units == NetEnergyReading \div Wh
<1>1. Wh \in Nat \ {0} /\ MaxEnergy \in Nat /\ energy \in 0 .. MaxEnergy
      /\ TempLastEnergyValue \in Nat /\ charged \in Nat /\ ever \in Nat
      /\ ConsumptionSinceLastBilling \in Nat /\ rates \in Rates
  BY TariffAssumption DEF TypeInv, TypeOK
<1>2. NetEnergyReading \in Int /\ NetEnergyReading >= Wh
      /\ energy = TempLastEnergyValue + NetEnergyReading
  BY <1>1 DEF CalculateTariff_New, NetEnergyReading
<1>3. /\ units \in Nat /\ units >= 1
      /\ Wh * units <= NetEnergyReading /\ NetEnergyReading < Wh * units + Wh
  BY <1>1, <1>2, WholeUnits
<1>4. energy % Wh \in 0 .. Wh - 1
  BY <1>1, Fraction
<1>5. /\ ConsumptionSinceLastBilling' = ConsumptionSinceLastBilling + units
      /\ charged' = charged + units /\ ever' = ever + units
      /\ TempLastEnergyValue' = energy + (energy % Wh)
      /\ UNCHANGED <<energy, billingSchema, rates, LowTariff, eeprom, boots, changes,
                     unsaved, checked>>
      /\ settled' = balance /\ pc' = "save_balance"
  BY <1>1, <1>2, <1>4 DEF CalculateTariff_New, Advanced
<1>6. Charges(units) \in Nat
  <2> HIDE DEF units
  <2> QED BY <1>1, <1>3, ChargesType
<1> HIDE DEF units
<1>7. /\ Wh * charged' = Wh * charged + Wh * units
      /\ 3 * Wh * charged' = 3 * (Wh * charged) + 3 * (Wh * units)
      /\ 3 * Wh * charged = 3 * (Wh * charged)
      /\ Wh * charged \in Nat /\ Wh * units \in Nat
      /\ charged' <= Wh * charged' /\ Wh <= Wh * units
  <2>1. Wh <= Wh * units
    BY <1>1, <1>3
  <2>2. charged' \in Nat
    BY <1>1, <1>3, <1>5
  <2>3. QED
    BY <1>1, <1>3, <1>5, <2>1, <2>2, UnitsAdd
<1>8. ChargeInv'
  BY <1>1, <1>2, <1>3, <1>4, <1>5, <1>7 DEF TypeInv, ChargeInv, ChargesBounded
<1>9. balance' \in Int /\ postPaid' \in Nat
  <2>1. \/ balance' = balance - Charges(units) /\ postPaid' = postPaid
        \/ balance' = balance /\ postPaid' = postPaid + Charges(units)
    BY DEF CalculateTariff_New, units
  <2>2. QED
    BY <2>1, <1>6 DEF TypeInv, TypeOK
<1>10. /\ TempLastEnergyValue' \in 0 .. MaxEnergy + Wh - 1
       /\ ConsumptionSinceLastBilling' \in 0 .. MaxEnergy
       /\ charged' \in Nat /\ ever' \in Nat
  BY <1>1, <1>3, <1>4, <1>5, <1>7, <1>8 DEF ChargeInv, ChargesBounded
<1>11. TypeOK'
  BY <1>5, <1>9, <1>10 DEF TypeInv, TypeOK
<1>12. QED
  BY <1>8, <1>11 DEF TypeInv

\* Nothing else charges: a client, the calendar, a failed write and a failure
\* of the supply keep the bounds, a restart begins to count again.
LEMMA TypeInvStep == TypeInv /\ [Next]_vars => TypeInv'
<1> SUFFICES ASSUME TypeInv, [Next]_vars PROVE TypeInv'
  OBVIOUS
<1> USE TariffAssumption DEF TypeInv, TypeOK, ChargeInv, ChargesBounded, ram, counted
<1>1. CASE Measure
  BY <1>1 DEF Measure
<1>2. CASE NothingToCharge
  BY <1>2 DEF NothingToCharge
<1>3. CASE CalculateTariff_New
  BY <1>3, BillingTypeInv
<1>4. CASE SaveChargedBalance \/ SaveCredit
  <2>1. eeprom' \in Int /\ unsaved' \in BOOLEAN
    BY <1>4 DEF SaveChargedBalance, SaveCredit, SaveBalance
  <2>2. pc' \in {"save_last", "check"}
    BY <1>4 DEF SaveChargedBalance, SaveCredit, SaveBalance
  <2>3. UNCHANGED <<energy, ram, billingSchema, rates, LowTariff, boots, changes, counted,
                 settled, checked>>
    BY <1>4 DEF SaveChargedBalance, SaveCredit, SaveBalance
  <2>4. QED
    BY <2>1, <2>2, <2>3
<1>5. CASE SaveRest
  BY <1>5 DEF SaveRest
<1>6. CASE CheckTariff
  <2>1. LowTariff' \in BOOLEAN
    BY <1>6, Zenon DEF CheckTariff
  <2>2. QED
    BY <1>6, <2>1 DEF CheckTariff
<1>7. CASE increment_balance \/ decrement_balance
  <2>1. PICK amount \in Int : ChangeBalance(amount)
    BY <1>7 DEF increment_balance, decrement_balance
  <2>2. QED
    BY <2>1 DEF ChangeBalance
<1>8. CASE RatesChange
  BY <1>8 DEF RatesChange
<1>9. CASE per_month_activity
  <2>1. /\ ConsumptionSinceLastBilling' = 0 /\ checked' = FALSE
        /\ UNCHANGED <<energy, TempLastEnergyValue, balance, postPaid, billingSchema, rates,
                       LowTariff, eeprom, pc, boots, changes, counted, settled, unsaved>>
    BY <1>9 DEF per_month_activity
  <2>2. Wh * charged' = Wh * charged /\ 3 * Wh * charged' = 3 * Wh * charged
    BY <2>1
  <2>3. ChargeInv'
    BY <2>1, <2>2
  <2>4. ConsumptionSinceLastBilling' \in 0 .. MaxEnergy
    <3>1. MaxEnergy \in Nat /\ ConsumptionSinceLastBilling' = 0
      BY <2>1
    <3> QED BY ONLY <3>1
  <2>5. TypeOK'
    BY <2>1, <2>4
  <2>6. QED
    BY <2>3, <2>5
<1>10. CASE PowerFail
  BY <1>10 DEF PowerFail
<1>11. CASE initTariff
  <2>1. unsaved' \in BOOLEAN
    BY <1>11, Zenon DEF initTariff
  <2>2. /\ TempLastEnergyValue' = 0 /\ ConsumptionSinceLastBilling' = 0 /\ charged' = 0
        /\ postPaid' = 0 /\ Wh * charged' = 0 /\ 3 * Wh * charged' = 0
    BY <1>11 DEF initTariff
  <2>3. balance' \in Int /\ settled' \in Int /\ rates' \in Rates
    BY <1>11 DEF initTariff
  <2>4. LowTariff' = FALSE /\ checked' = FALSE /\ pc' = "loop"
    BY <1>11 DEF initTariff
  <2>5. UNCHANGED <<energy, billingSchema, eeprom, boots, changes, ever>>
    BY <1>11 DEF initTariff
  <2>6. ChargeInv'
    BY <2>2, <2>5
  <2>7. /\ TempLastEnergyValue' \in 0 .. MaxEnergy + Wh - 1
        /\ ConsumptionSinceLastBilling' \in 0 .. MaxEnergy
        /\ postPaid' \in Nat /\ charged' \in Nat
    BY <2>2
  <2>8. TypeOK'
    BY <2>1, <2>3, <2>4, <2>5, <2>7
  <2>9. QED
    BY <2>6, <2>8
<1>12. CASE UNCHANGED vars
  BY <1>12 DEF vars
<1>13. QED
  BY <1>1, <1>2, <1>3, <1>4, <1>5, <1>6, <1>7, <1>8, <1>9, <1>10, <1>11, <1>12 DEF Next

\* The bounds hold for ever.
LEMMA TypeInvariant == Spec => []TypeInv
BY InitTypeInv, TypeInvStep, PTL DEF Spec

\* Every variable has its type: the reading up to which is charged stays less
\* than a unit beyond what the register can hold, and the sums of prices that
\* CalculateTariff_New takes from the balance are numbers.
THEOREM TariffTypeCorrect == Spec => []TypeOK
<1>1. TypeInv => TypeOK
  BY DEF TypeInv
<1>2. QED
  BY <1>1, TypeInvariant, PTL

\* Since the boot no unit is charged that was not consumed, and at least every
\* third one is, whatever the readings and whenever CalculateBilling runs: the
\* reading up to which is charged is at least what the charged units amount to,
\* so the next net reading holds none of them again.
THEOREM ChargesStayBounded == Spec => []ChargesBounded
<1>1. TypeInv => ChargesBounded
  BY DEF TypeInv, ChargeInv
<1>2. QED
  BY <1>1, TypeInvariant, PTL

-----------------------------------------------------------------------------
(* The balance in EEPROM.                                                  *)

\* What is in EEPROM at each step, as long as the last write succeeded: the
\* balance before the change until it is saved, and the balance afterwards.
BalanceInv ==
  ~unsaved =>
    /\ pc \in {"save_balance", "save_credit"} => eeprom = settled
    /\ pc = "off" => eeprom \in {settled, balance}
    /\ pc \notin {"save_balance", "save_credit", "off"} => eeprom = balance

\* No step but a failed write parts the EEPROM from the balance.
LEMMA BalanceInvariant == Spec => []BalanceInv
<1>1. Init => BalanceInv
  BY DEF Init, BalanceInv
<1>2. BalanceInv /\ [Next]_vars => BalanceInv'
  <2> SUFFICES ASSUME BalanceInv, [Next]_vars PROVE BalanceInv'
    OBVIOUS
  <2> USE DEF BalanceInv, ram
  <2>1. CASE Measure \/ NothingToCharge
    BY <2>1 DEF Measure, NothingToCharge
  <2>2. CASE CalculateTariff_New
    BY <2>2 DEF CalculateTariff_New
  <2>3. CASE SaveChargedBalance
    BY <2>3 DEF SaveChargedBalance, SaveBalance
  <2>4. CASE SaveCredit
    BY <2>4 DEF SaveCredit, SaveBalance
  <2>5. CASE SaveRest \/ RatesChange \/ per_month_activity
    BY <2>5 DEF SaveRest, RatesChange, per_month_activity
  <2>6. CASE CheckTariff
    BY <2>6 DEF CheckTariff
  <2>7. CASE increment_balance \/ decrement_balance
    <3>1. PICK amount : ChangeBalance(amount)
      BY <2>7 DEF increment_balance, decrement_balance
    <3>2. QED
      BY <3>1 DEF ChangeBalance
  <2>8. CASE PowerFail
    BY <2>8 DEF PowerFail
  <2>9. CASE initTariff
    BY <2>9 DEF initTariff
  <2>10. CASE UNCHANGED vars
    BY <2>10 DEF vars
  <2>11. QED
    BY <2>1, <2>2, <2>3, <2>4, <2>5, <2>6, <2>7, <2>8, <2>9, <2>10 DEF Next
<1>3. QED
  BY <1>1, <1>2, PTL DEF Spec

\* initTariff finds the balance as it was before the last billing or client's
\* call or after it, wherever the supply failed, unless a write or the read did.
THEOREM BalanceIsAtomic == Spec => BalanceAtomic
<1>1. BalanceInv /\ [Next]_vars
        => [pc = "off" /\ ~unsaved /\ ~unsaved' => balance' \in {settled, balance}]_vars
  <2> SUFFICES ASSUME BalanceInv, Next, pc = "off", ~unsaved, ~unsaved'
               PROVE  balance' \in {settled, balance}
    BY DEF vars
  <2>1. initTariff
    BY DEF Next, Measure, NothingToCharge, CalculateTariff_New, SaveChargedBalance, SaveRest,
      CheckTariff, increment_balance, decrement_balance, ChangeBalance, SaveCredit,
      RatesChange, per_month_activity, PowerFail
  <2>2. QED
    BY <2>1 DEF initTariff, BalanceInv
<1>2. QED
  BY <1>1, BalanceInvariant, PTL DEF Spec, BalanceAtomic

-----------------------------------------------------------------------------
(* Low tariff.                                                             *)

\* The price is that of the rates in force and the consumption of the month.
LEMMA PriceUnchanged ==
  UNCHANGED <<rates, ConsumptionSinceLastBilling>>
    => Price(ConsumptionSinceLastBilling)' = Price(ConsumptionSinceLastBilling)
BY DEF Price, getRateStartIndex

\* LowTariffTells, and the same while a measurement is billed: a change of the
\* balance goes through CheckTariff before the main loop goes on.
LowTariffInv ==
  pc \in {"loop", "bill"} /\ checked
    => LowTariff = (billingSchema = "pre_paid"
                      /\ balance < Price(ConsumptionSinceLastBilling))

\* Only other rates or a new month make the flag stale.
LEMMA LowTariffInvariant == Spec => []LowTariffInv
<1>1. Init => LowTariffInv
  BY DEF Init, LowTariffInv
<1>2. LowTariffInv /\ [Next]_vars => LowTariffInv'
  <2> SUFFICES ASSUME LowTariffInv, [Next]_vars PROVE LowTariffInv'
    OBVIOUS
  <2>1. CASE /\ UNCHANGED <<rates, ConsumptionSinceLastBilling, LowTariff, billingSchema,
                             balance, checked>>
             /\ pc' \in {"loop", "bill"} => pc \in {"loop", "bill"}
    BY <2>1, PriceUnchanged, Zenon DEF LowTariffInv
  <2>2. CASE CheckTariff
    <3>1. UNCHANGED <<rates, ConsumptionSinceLastBilling, billingSchema, balance>>
      BY <2>2 DEF CheckTariff, ram
    <3>2. LowTariff' = (billingSchema = "pre_paid"
                          /\ balance < Price(ConsumptionSinceLastBilling))
      BY <2>2, Zenon DEF CheckTariff
    <3>3. QED
      BY <3>1, <3>2, PriceUnchanged, Zenon DEF LowTariffInv
  <2>3. CASE ~checked' \/ pc' \notin {"loop", "bill"}
    BY <2>3, Zenon DEF LowTariffInv
  <2>4. CASE Measure \/ NothingToCharge
    BY <2>4, <2>1 DEF Measure, NothingToCharge, ram
  <2>5. CASE CalculateTariff_New \/ SaveChargedBalance \/ SaveCredit \/ SaveRest
    BY <2>5, <2>3 DEF CalculateTariff_New, SaveChargedBalance, SaveCredit, SaveBalance, SaveRest
  <2>6. CASE increment_balance \/ decrement_balance
    BY <2>6, <2>3 DEF increment_balance, decrement_balance, ChangeBalance
  <2>7. CASE RatesChange \/ per_month_activity \/ PowerFail \/ initTariff
    BY <2>7, <2>3 DEF RatesChange, per_month_activity, PowerFail, initTariff
  <2>8. CASE UNCHANGED vars
    BY <2>8, <2>1 DEF vars, ram
  <2>9. QED
    BY <2>2, <2>4, <2>5, <2>6, <2>7, <2>8 DEF Next
<1>3. QED
  BY <1>1, <1>2, PTL DEF Spec

\* status.LowTariff, for which the relay opens, tells whether the balance covers
\* the price whenever the main loop has come round after CheckTariff, until
\* other rates or a new month come.
THEOREM LowTariffIsTold == Spec => []LowTariffTells
<1>1. LowTariffInv => LowTariffTells
  BY DEF LowTariffInv, LowTariffTells
<1>2. QED
  BY <1>1, LowTariffInvariant, PTL
=============================================================================
