\* GS1 labels with a GTIN and an expiry date, typed key by key.
CONSTANT Numbers = {}
SPECIFICATION TypingSpec
INVARIANT KeystrokesFillFields
CHECK_DEADLOCK FALSE
