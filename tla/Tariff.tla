------------------------------- MODULE Tariff -------------------------------
(***************************************************************************)
(* Credit and charges of the SM502: CalculateTariff_New charges every kWh  *)
(* of the energy register to the balance and remembers up to which reading *)
(* it has charged.  The balance, that reading and the consumption of the   *)
(* month are written to EEPROM one after the other; at a boot only the     *)
(* balance is read again.                                                  *)
(*                                                                         *)
(* The supply may fail between any two steps.  The energy register is      *)
(* restored as it was (EnergyBackup.tla is about what may be lost).  The   *)
(* tables of rates and time slots are data: at any time the rates of       *)
(* another slot or day may come into force.                                *)
(***************************************************************************)
EXTENDS Integers

CONSTANTS
  Wh,            \* 1000: watt-hours to a unit that is charged
  MaxStep,       \* the most watt-hours that are measured between two billings
  LastBand,      \* 9: the highest price band
  power_brakes,  \* consumption at which the next price band begins
  Rates,         \* the rows of rates that may come into force: a price per band
  Opening,       \* the balance at delivery
  Amounts,       \* what a client adds or takes
  MaxEnergy,     \* bound: the energy register
  MaxBoots,      \* bound: restarts
  MaxChanges     \* bound: calls of increment_balance and decrement_balance

Bands == 0 .. LastBand

ASSUME TariffAssumption ==
  /\ Wh \in Nat \ {0}
  /\ MaxStep \in Nat \ {0}
  /\ LastBand \in Nat
  /\ power_brakes \in [Bands -> Nat]
  /\ Rates \subseteq [Bands -> Nat] /\ Rates # {}
  /\ Opening \in Int
  /\ Amounts \subseteq Nat
  /\ MaxEnergy \in Nat /\ MaxBoots \in Nat /\ MaxChanges \in Nat

VARIABLES
  energy,                       \* import_active_energy_QI_QIV
  TempLastEnergyValue,
  ConsumptionSinceLastBilling,  \* units
  balance,                      \* Current_balance
  postPaid,                     \* Balance_PostPaid
  billingSchema,                \* "pre_paid" or "post_paid"
  rates,                        \* the row in force: todaysRates' slot of the minute
  LowTariff,                    \* status.LowTariff
  eeprom,                       \* the balance in EEPROM; what else is written is never read
  pc,                           \* what the main program does next
  boots, changes,
  charged,                      \* history: units charged since the boot
  ever,                         \* history: units charged since delivery
  settled,                      \* history: the balance before the last change
  unsaved,                      \* history: the last write of the balance failed
  checked                       \* history: nothing changed since CheckTariff

ram     == <<TempLastEnergyValue, ConsumptionSinceLastBilling, balance, postPaid>>
counted == <<charged, ever>>
vars    == <<energy, ram, billingSchema, rates, LowTariff, eeprom, pc, boots, changes,
             counted, settled, unsaved, checked>>

-----------------------------------------------------------------------------
(* The price of a unit.                                                    *)

(* The first band whose break lies above the consumption.                  *)
getRateStartIndex(consumption) ==
  LET above == {i \in Bands : power_brakes[i] > consumption}
  IN  IF above = {} THEN LastBand ELSE CHOOSE i \in above : \A k \in above : i <= k

Price(consumption) == rates[getRateStartIndex(consumption)]

(* n units, each at the price of the consumption it brings about.          *)
Charges(n) ==
  LET sum[i \in 0 .. n] ==
        IF i = 0 THEN 0 ELSE sum[i - 1] + Price(ConsumptionSinceLastBilling + i)
  IN  sum[n]

-----------------------------------------------------------------------------
(* A measurement, and CalculateBilling after it.                           *)

Measure ==
  /\ pc = "loop"
  /\ \E wh \in 0 .. MaxStep :
       /\ energy + wh <= MaxEnergy
       /\ energy' = energy + wh
  /\ pc' = "bill"
  /\ UNCHANGED <<ram, billingSchema, rates, LowTariff, eeprom, boots, changes, counted,
                 settled, unsaved, checked>>

NetEnergyReading == energy - TempLastEnergyValue

NothingToCharge ==
  /\ pc = "bill"
  /\ NetEnergyReading < Wh
  /\ pc' = "loop"
  /\ UNCHANGED <<energy, ram, billingSchema, rates, LowTariff, eeprom, boots, changes,
                 counted, settled, unsaved, checked>>

(* Faulty variants: units are added to watt-hours; the whole reading is    *)
(* added to the net reading.                                               *)
AdvancedByUnits   == TempLastEnergyValue + NetEnergyReading \div Wh
AdvancedByReading == TempLastEnergyValue + NetEnergyReading + energy

(* The reading up to which is charged is advanced by the net reading, of   *)
(* which only whole units are charged, and by the fraction of a unit in    *)
(* the register.                                                           *)
Advanced == TempLastEnergyValue + NetEnergyReading + (energy % Wh)

CalculateTariff_New ==
  /\ pc = "bill"
  /\ NetEnergyReading >= Wh
  /\ LET units == NetEnergyReading \div Wh IN
       /\ ConsumptionSinceLastBilling' = ConsumptionSinceLastBilling + units
       /\ charged' = charged + units
       /\ ever' = ever + units
       /\ IF billingSchema = "pre_paid"
          THEN balance' = balance - Charges(units) /\ UNCHANGED postPaid
          ELSE postPaid' = postPaid + Charges(units) /\ UNCHANGED balance
  /\ TempLastEnergyValue' = Advanced
  /\ settled' = balance
  /\ pc' = "save_balance"
  /\ UNCHANGED <<energy, billingSchema, rates, LowTariff, eeprom, boots, changes,
                 unsaved, checked>>

(* write_to_eeprom(&Current_balance, ...), also for a post-paid meter.     *)
SaveBalance(next) ==
  /\ \/ eeprom' = balance /\ unsaved' = FALSE
     \/ UNCHANGED eeprom /\ unsaved' = TRUE
  /\ pc' = next
  /\ UNCHANGED <<energy, ram, billingSchema, rates, LowTariff, boots, changes, counted,
                 settled, checked>>

SaveChargedBalance == pc = "save_balance" /\ SaveBalance("save_last")

(* TempLastEnergyValue and ConsumptionSinceLastBilling are written.        *)
SaveRest ==
  /\ \/ pc = "save_last" /\ pc' = "save_consumption"
     \/ pc = "save_consumption" /\ pc' = "check"
  /\ UNCHANGED <<energy, ram, billingSchema, rates, LowTariff, eeprom, boots, changes,
                 counted, settled, unsaved, checked>>

(* The price of the consumption so far, not that of the next unit; the     *)
(* relay asks too, before it connects.                                     *)
CheckTariff ==
  /\ pc \in {"check", "loop"}
  /\ LowTariff' = (billingSchema = "pre_paid" /\ balance < Price(ConsumptionSinceLastBilling))
  /\ checked' = TRUE
  /\ pc' = "loop"
  /\ UNCHANGED <<energy, ram, billingSchema, rates, eeprom, boots, changes, counted,
                 settled, unsaved>>

-----------------------------------------------------------------------------
(* The client, and the calendar.                                           *)

ChangeBalance(amount) ==
  /\ pc = "loop"
  /\ changes < MaxChanges
  /\ changes' = changes + 1
  /\ balance' = balance + amount
  /\ settled' = balance
  /\ pc' = "save_credit"
  /\ UNCHANGED <<energy, TempLastEnergyValue, ConsumptionSinceLastBilling, postPaid,
                 billingSchema, rates, LowTariff, eeprom, boots, counted, unsaved, checked>>

increment_balance == \E amount \in Amounts : ChangeBalance(amount)
decrement_balance == \E amount \in Amounts : ChangeBalance(-amount)

(* Faulty variants: the relay's flag is not looked at again; nothing is    *)
(* written.                                                                *)
SaveCreditUnchecked == pc = "save_credit" /\ SaveBalance("loop")
SaveCreditLater ==
  /\ pc = "save_credit"
  /\ pc' = "check"
  /\ UNCHANGED <<energy, ram, billingSchema, rates, LowTariff, eeprom, boots, changes,
                 counted, settled, unsaved, checked>>

SaveCredit == pc = "save_credit" /\ SaveBalance("check")

(* Another slot of the day, or LoadTodaysTariff of a new day.              *)
RatesChange ==
  /\ pc = "loop"
  /\ rates' \in Rates
  /\ checked' = FALSE
  /\ UNCHANGED <<energy, ram, billingSchema, LowTariff, eeprom, pc, boots, changes,
                 counted, settled, unsaved>>

(* The consumption starts again, in RAM only.                              *)
per_month_activity ==
  /\ pc = "loop"
  /\ ConsumptionSinceLastBilling' = 0
  /\ checked' = FALSE
  /\ UNCHANGED <<energy, TempLastEnergyValue, balance, postPaid, billingSchema, rates,
                 LowTariff, eeprom, pc, boots, changes, counted, settled, unsaved>>

-----------------------------------------------------------------------------
(* The supply fails at any point; initTariff reads the balance only.       *)

PowerFail ==
  /\ pc # "off"
  /\ boots < MaxBoots
  /\ boots' = boots + 1
  /\ pc' = "off"
  /\ UNCHANGED <<energy, ram, billingSchema, rates, LowTariff, eeprom, changes, counted,
                 settled, unsaved, checked>>

(* A balance that cannot be read counts as 0.                              *)
initTariff ==
  /\ pc = "off"
  /\ balance' \in {eeprom, 0}
  /\ unsaved' = (balance' # eeprom)
  /\ TempLastEnergyValue' = 0
  /\ ConsumptionSinceLastBilling' = 0
  /\ postPaid' = 0
  /\ rates' \in Rates
  /\ LowTariff' = FALSE
  /\ charged' = 0
  /\ settled' = balance'
  /\ checked' = FALSE
  /\ pc' = "loop"
  /\ UNCHANGED <<energy, billingSchema, eeprom, boots, changes, ever>>

-----------------------------------------------------------------------------
Init ==
  /\ energy = 0
  /\ TempLastEnergyValue = 0
  /\ ConsumptionSinceLastBilling = 0
  /\ balance = Opening
  /\ postPaid = 0
  /\ billingSchema \in {"pre_paid", "post_paid"}
  /\ rates \in Rates
  /\ LowTariff = FALSE
  /\ eeprom = Opening
  /\ pc = "loop"
  /\ boots = 0
  /\ changes = 0
  /\ charged = 0
  /\ ever = 0
  /\ settled = Opening
  /\ unsaved = FALSE
  /\ checked = FALSE

Next ==
  \/ Measure \/ NothingToCharge \/ CalculateTariff_New
  \/ SaveChargedBalance \/ SaveRest \/ CheckTariff
  \/ increment_balance \/ decrement_balance \/ SaveCredit
  \/ RatesChange \/ per_month_activity
  \/ PowerFail \/ initTariff

Spec == Init /\ [][Next]_vars

-----------------------------------------------------------------------------
TypeOK ==
  /\ energy \in 0 .. MaxEnergy
  /\ TempLastEnergyValue \in 0 .. MaxEnergy + Wh - 1
  /\ ConsumptionSinceLastBilling \in 0 .. MaxEnergy
  /\ balance \in Int /\ postPaid \in Nat /\ settled \in Int
  /\ billingSchema \in {"pre_paid", "post_paid"}
  /\ rates \in Rates
  /\ LowTariff \in BOOLEAN /\ unsaved \in BOOLEAN /\ checked \in BOOLEAN
  /\ eeprom \in Int
  /\ pc \in {"loop", "bill", "save_balance", "save_last", "save_consumption", "check",
             "save_credit", "off"}
  /\ boots \in 0 .. MaxBoots
  /\ changes \in 0 .. MaxChanges
  /\ charged \in Nat /\ ever \in Nat

(* Since the boot no unit is charged that was not consumed, and however    *)
(* the readings fall at least every third one is: the reading up to which  *)
(* is charged is ahead of the register by less than a unit, and by less    *)
(* than three for every unit that was charged.                             *)
ChargesBounded ==
  /\ Wh * charged <= energy
  /\ TempLastEnergyValue < energy + Wh
  /\ TempLastEnergyValue <= 3 * Wh * charged

(* A restart finds the balance as it was before the last change or after   *)
(* it, and nothing between, wherever the supply has failed in a billing or *)
(* a client's call, as long as the EEPROM does its duty.                   *)
BalanceAtomic ==
  [][pc = "off" /\ ~unsaved /\ ~unsaved' => balance' \in {settled, balance}]_vars

(* LowTariff, which opens the relay, tells whether the balance covers the  *)
(* price, after a billing, a client's call or a failed write, until other  *)
(* rates or a new month come.                                              *)
LowTariffTells ==
  pc = "loop" /\ checked
    => LowTariff = (billingSchema = "pre_paid"
                      /\ balance < Price(ConsumptionSinceLastBilling))

(* The last energy value that is billed is remembered so that no unit is   *)
(* charged again, also after a restart.                                    *)
ChargedOnce == billingSchema = "pre_paid" => Wh * ever <= energy
=============================================================================
