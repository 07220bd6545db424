SPECIFICATION AuthFairSpec
CONSTANTS
  Methods = {"REGISTER"}
  Addrs = {a1, a2}
  Lifetime = 0
  Skew = 0
  MaxNet = 1
  Null = Null
PROPERTY RegistersAgain
