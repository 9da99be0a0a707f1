SPECIFICATION LifeSpec
INVARIANTS TakenApart
PROPERTIES CloseCompletes
