SPECIFICATION Spec
CONSTANTS
    DE = DE  US = US  berlin = berlin  bonn = bonn  main = main  oak = oak
    acme = acme  five = five
    None = None
    Numbers = {five}
    Generic = {}
CONSTANT Inputs <- MCInputs
CHECK_DEADLOCK FALSE
INVARIANTS  OneRanking SettledOnAllThatIsKnown    
