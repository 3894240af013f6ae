----------------------------- MODULE WadRayMath -----------------------------
(* The fixed-point libraries of contracts/protocol/libraries/math: WadRayMath, *)
(* PercentageMath and MathUtils.  The three scales and the length of a year   *)
(* are parameters, so that TLC can work with small ones; the theorems hold for *)
(* every value that satisfies MathConstants.  Solidity's `/` on uint256 is     *)
(* \div.  The 256-bit overflow checks of the libraries are not modelled: the   *)
(* pool stores indexes and rates in 128 bits and those bounds are (see         *)
(* ReserveLogic!FitsUint128).  A zero divisor reverts in the code: callers     *)
(* guard it.                                                                   *)
EXTENDS Integers

CONSTANTS
    WAD,                \* 1e18 in the code: the scale of health factors
    WAD_RAY_RATIO,      \* 1e9: rays per wad
    PERCENTAGE_FACTOR,  \* 1e4: 100%
    SECONDS_PER_YEAR    \* 365 days

ASSUME MathConstants ==
    /\ WAD \in Nat \ {0}
    /\ WAD_RAY_RATIO \in Nat \ {0}
    /\ PERCENTAGE_FACTOR \in Nat \ {0}
    /\ SECONDS_PER_YEAR \in Nat \ {0}

RAY == WAD * WAD_RAY_RATIO

\* Division rounding half up, the way all the libraries divide.
HalfUp(n, d) == (n + d \div 2) \div d

\* Fault: rayDiv without the half unit, which rounds down.
rayDivRoundingDown(a, b) == (a * RAY) \div b

wadDiv(a, b)     == HalfUp(a * WAD, b)
rayMul(a, b)     == HalfUp(a * b, RAY)
rayDiv(a, b)     == HalfUp(a * RAY, b)
wadToRay(a)      == a * WAD_RAY_RATIO
percentMul(v, p) == HalfUp(v * p, PERCENTAGE_FACTOR)
percentDiv(v, p) == HalfUp(v * PERCENTAGE_FACTOR, p)

\* Interest factor, in ray, earned between the times since and t.
calculateLinearInterest(rate, since, t) ==
    (rate * (t - since)) \div SECONDS_PER_YEAR + RAY

\* Third-order binomial approximation of the compounded factor.
calculateCompoundedInterest(rate, since, t) ==
    LET exp            == t - since
        expMinusTwo    == IF exp > 2 THEN exp - 2 ELSE 0
        ratePerSecond  == rate \div SECONDS_PER_YEAR
        basePowerTwo   == rayMul(ratePerSecond, ratePerSecond)
        basePowerThree == rayMul(basePowerTwo, ratePerSecond)
    IN  IF exp = 0
        THEN RAY
        ELSE RAY + ratePerSecond * exp
                 + (exp * (exp - 1) * basePowerTwo) \div 2
                 + (exp * (exp - 1) * expMinusTwo * basePowerThree) \div 6
=============================================================================
