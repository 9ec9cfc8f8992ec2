----------------------------- MODULE MCBluetooth -----------------------------
EXTENDS Bluetooth

MCFrames == {<<49>>, <<49, 49, 48>>, <<49, 49, 49, 49>>}
MCDigits(n) == LET d[k \in Nat] == IF k < 10 THEN <<48 + k>> ELSE Append(d[k \div 10], 48 + (k % 10))
               IN  d[n]
=============================================================================
