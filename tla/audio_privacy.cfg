SPECIFICATION Spec
PROPERTY FullRateOnlyOnHigh
